---- MODULE Spec2Model ----
(***************************************************************************)
(* The event log of the game server: App (pandt/src/app.rs) keeps the      *)
(* current Game, a deque of snapshots (baseline Game, log segment) and the *)
(* player index.  Commands append GameLogs to the last segment; Rollback   *)
(* rebuilds a Game by replaying a prefix of a segment onto its baseline.   *)
(*                                                                         *)
(* Game (game.rs, types.rs) is not among the sources: the small Game used  *)
(* here follows the specification's sections 4.E, 4.G, 4.H, 7 and 8.       *)
(***************************************************************************)
EXTENDS Integers, Sequences, FiniteSets, TLC

VARIABLES
  current_game,   \* App.current_game
  snapshots,      \* App.snapshots: sequence of <<baseline Game, log segment>>
  players,        \* App.players: PlayerID -> Player
  cmd,            \* the last GameCommand handed to perform_unchecked
  result,         \* what that call returned: Ok(logs), Err(e) or a panic
  hist,           \* history: hist[s][n] is the Game that was current when segment s came to hold n logs
  budget,         \* commands still to be explored, per kind
  rogue,          \* the Creature under tick, apply_effect and apply_log
  rogue_class,    \* Class.conditions of the creature's class
  rogue_volumes,  \* AppliedConditions of the volumes the creature stands in
  next_condition_id, \* the id ConditionID::gen hands out next
  op,             \* the last creature operation: the creature before it, its input, its logs, the conditions that fired
  age,            \* history: per stored condition, its duration when first seen and its ticks since
  left,           \* creature operations still to be explored, per kind
  scene_terrain,  \* Terrain: the open points
  grid_query,     \* the last grid query and what it returned
  search,         \* the path search under way: the function called and the state of the loop of astar_multi
  path_query,     \* the last path search that returned, and what it returned
  accessible,     \* the last get_all_accessible that returned, and its points
  indexed,        \* an IndexedHashMap of Players: IndexedHashMap.data
  indexed_op,     \* the last operation on it: the map before, the arguments, what it returned
  service,        \* the service that answers: GameService of ptrpi, GMService or PlayerService of rpi
  waiters,        \* PingService.waiters: GameID -> Vec<oneshot::Sender<()>>
  pollers,        \* the poll_game calls: per client, where its call stands and its oneshot channel
  commanders,     \* the perform_command calls: per client, its service handle and where its call stands
  persisted,      \* the storage: per game the logs that apply_game_logs appended
  user_games,     \* the storage: the GameProfiles (user, game, role, profile name)
  invited,        \* the storage: the invitations, <<game, invitation>>
  auth,           \* the last call on an AuthenticatedService and what it returned
  creatures,      \* the capability-based App: App.creatures
  current_combat, \* App.current_combat: None or Some(Combat)
  combat_history, \* App.combat_history
  cap_op          \* the last call on an AppCap: the App before, the arguments, what it returned

app_vars == <<current_game, snapshots, players, cmd, result, hist, budget>>

creature_vars == <<rogue, rogue_class, rogue_volumes, next_condition_id, op, age, left>>

grid_vars == <<scene_terrain, grid_query, search, path_query, accessible>>

indexed_vars == <<indexed, indexed_op>>

actor_vars == <<service, waiters, pollers, commanders, persisted>>

auth_vars == <<user_games, invited, auth>>

capability_vars == <<creatures, current_combat, combat_history, cap_op>>

vars == <<app_vars, creature_vars, grid_vars, indexed_vars, actor_vars, auth_vars, capability_vars>>

(***************************************************************************)
(* Bounds of the exploration.                                              *)
(***************************************************************************)
\* successful Game commands explored from the initial state
MaxGameCmds == 2
\* Rollback commands explored from the initial state
MaxRollbacks == 2
\* successful player-index commands explored from the initial state
MaxMetaCmds == 2
\* recurring Heal effects the acting creature's class carries: logs of one tick
TickEffects == 99

(***************************************************************************)
(* Results: Result<T, GameError>, and the two ways a call ends otherwise.  *)
(***************************************************************************)
NoGame == [creatures |-> {}, pos |-> <<>>, combat |-> <<>>]

Ok(game, logs) == [kind |-> "Ok", game |-> game, logs |-> logs, err |-> <<>>]

Err(e) == [kind |-> "Err", game |-> NoGame, logs |-> <<>>, err |-> e]

\* a Rust panic: the call does not return
Panic(msg) == [kind |-> "Panic", game |-> NoGame, logs |-> <<>>, err |-> <<msg>>]

\* unbounded recursion: the call never returns (the stack overflows)
Diverges == [kind |-> "Diverges", game |-> NoGame, logs |-> <<>>, err |-> <<>>]

NoResult == [kind |-> "None", game |-> NoGame, logs |-> <<>>, err |-> <<>>]

(***************************************************************************)
(* Game: creatures, their positions in the one scene, the current combat.  *)
(***************************************************************************)
Origin == <<0, 0, 0>>

Elsewhere == <<1, 1, 1>>

t_scene_id == "scene"

\* the creatures of the test game
TestCreatures == {"ranger", "rogue", "cleric"}

\* a CreatureID no Game holds
UnknownCreature == "nobody"

\* the Game the App is constructed with: every creature at the origin, no combat
t_game == [creatures |-> TestCreatures,
           pos |-> [c \in TestCreatures |-> Origin],
           combat |-> <<>>]

InCombat(game) == game.combat # <<>>

\* Game::check_creature_id
check_creature_id(game, cid) ==
  IF cid \in game.creatures THEN Ok(game, <<>>) ELSE Err(<<"CreatureNotFound", cid>>)

\* the logs of one tick of a creature at full health whose class carries
\* TickEffects RecurringEffect(Heal) conditions: one Heal(0) log per effect
TickLogs(cid) ==
  [i \in 1..TickEffects |-> [t |-> "CreatureLog", cid |-> cid, log |-> "Heal", hp |-> 0]]

\* Game::apply_log: one primitive mutation
apply_log(game, log) ==
  CASE log.t = "SetCreaturePos" ->
         IF log.cid \in DOMAIN game.pos
         THEN Ok([game EXCEPT !.pos[log.cid] = log.pt], <<>>)
         ELSE Err(<<"CreatureNotFound", log.cid>>)
    [] log.t = "RemoveCreature" ->
         IF log.cid \in game.creatures
         THEN Ok([creatures |-> game.creatures \ {log.cid},
                  pos |-> [c \in DOMAIN game.pos \ {log.cid} |-> game.pos[c]],
                  combat |-> game.combat], <<>>)
         ELSE Err(<<"CreatureNotFound", log.cid>>)
    [] log.t = "StartCombat" ->
         Ok([game EXCEPT !.combat = <<log.cids, 1>>], <<>>)
    [] log.t = "StopCombat" ->
         Ok([game EXCEPT !.combat = <<>>], <<>>)
    [] log.t = "CombatLog" ->
         IF InCombat(game)
         THEN Ok([game EXCEPT !.combat =
                    <<game.combat[1], (game.combat[2] % Len(game.combat[1])) + 1>>], <<>>)
         ELSE Err(<<"NotInCombat">>)
    [] log.t = "CreatureLog" ->
         IF log.cid \in game.creatures
         THEN Ok(game, <<>>)
         ELSE Err(<<"CreatureNotFound", log.cid>>)
    [] OTHER -> Err(<<"BuggyProgram">>)

RECURSIVE apply_logs(_, _, _, _)
\* the fold of apply_log over logs[lo..hi], left to right, stopping at the
\* first error (the range is halved to keep the evaluation shallow)
apply_logs(game, logs, lo, hi) ==
  IF lo > hi THEN Ok(game, <<>>)
  ELSE IF lo = hi THEN apply_log(game, logs[lo])
  ELSE LET mid == (lo + hi) \div 2
           r == apply_logs(game, logs, lo, mid)
       IN IF r.kind = "Ok" THEN apply_logs(r.game, logs, mid + 1, hi) ELSE r

\* the logs a Game command emits once validated, or the validation error
command_logs(game, c) ==
  CASE c.t = "SetCreaturePos" ->
         IF c.cid \in game.creatures
         THEN Ok(game, <<[t |-> "SetCreaturePos", cid |-> c.cid, pt |-> c.pt]>>)
         ELSE Err(<<"CreatureNotFound", c.cid>>)
    [] c.t = "RemoveCreature" ->
         IF c.cid \in game.creatures
         THEN Ok(game, <<[t |-> "RemoveCreature", cid |-> c.cid]>>)
         ELSE Err(<<"CreatureNotFound", c.cid>>)
    [] c.t = "StartCombat" ->
         IF InCombat(game) THEN Err(<<"AlreadyInCombat">>)
         ELSE IF c.cids = <<>> THEN Err(<<"CombatMustHaveCreatures">>)
         ELSE IF \E i \in 1..Len(c.cids) : c.cids[i] \notin game.creatures
         THEN Err(<<"CreatureNotFound",
                    c.cids[CHOOSE i \in 1..Len(c.cids) :
                             /\ c.cids[i] \notin game.creatures
                             /\ \A j \in 1..(i - 1) : c.cids[j] \in game.creatures]>>)
         ELSE Ok(game, <<[t |-> "StartCombat", cids |-> c.cids]>>)
    [] c.t = "StopCombat" ->
         IF InCombat(game) THEN Ok(game, <<[t |-> "StopCombat"]>>)
         ELSE Err(<<"NotInCombat">>)
    [] c.t = "Done" ->
         IF ~InCombat(game) THEN Err(<<"NotInCombat">>)
         ELSE LET order == game.combat[1]
                  next == order[(game.combat[2] % Len(order)) + 1]
              IN IF next \in game.creatures
                 THEN Ok(game, <<[t |-> "CombatLog", log |-> "EndTurn"]>> \o TickLogs(next))
                 ELSE Err(<<"CreatureNotFound", next>>)
    [] OTHER -> Err(<<"BuggyProgram">>)

\* Game::perform_unchecked(cmd).done(): the new Game and the logs that lead to it
game_perform_unchecked(game, c) ==
  LET l == command_logs(game, c)
  IN IF l.kind # "Ok" THEN l
     ELSE LET r == apply_logs(game, l.logs, 1, Len(l.logs))
          IN IF r.kind = "Ok" THEN Ok(r.game, l.logs) ELSE r

(***************************************************************************)
(* IndexedHashMap<Player> (pandt/src/indexed.rs): a map keyed by the key   *)
(* each value derives from itself.                                         *)
(***************************************************************************)
\* Player::new
NewPlayer(pid) == [player_id |-> pid, creatures |-> {}, scene |-> "None"]

\* DeriveKey for Player
derive_key(v) == v.player_id

contains_key(m, k) == k \in DOMAIN m

\* IndexedHashMap::insert
insert(m, v) == [k \in DOMAIN m \cup {derive_key(v)} |-> IF k = derive_key(v) THEN v ELSE m[k]]

\* IndexedHashMap::remove (the map that is left)
remove(m, k) == [j \in DOMAIN m \ {k} |-> m[j]]

\* IndexedHashMap::insert: what it returns, the value that was under the key
insert_returned(m, v) ==
  IF contains_key(m, derive_key(v)) THEN [some |-> TRUE, v |-> m[derive_key(v)]]
  ELSE [some |-> FALSE]

\* IndexedHashMap::remove: what it returns, the value taken out
remove_returned(m, k) ==
  IF contains_key(m, k) THEN [some |-> TRUE, v |-> m[k]] ELSE [some |-> FALSE]

\* IndexedHashMap::mutate: what it returns, Some(()) or None
mutate_returned(m, k) == [some |-> contains_key(m, k)]

\* a mutate that writes the new value where the old one was
mutate_in_place(m, k, f) == IF contains_key(m, k) THEN [m EXCEPT ![k] = f[m[k]]] ELSE m

\* IndexedHashMap::mutate: take the value out, transform it, insert it again
\* (f is the closure, a function on the value taken out)
mutate(m, k, f) == IF contains_key(m, k) THEN insert(remove(m, k), f[m[k]]) ELSE m

Range(seq) == {seq[i] : i \in 1..Len(seq)}

(***************************************************************************)
(* App (pandt/src/app.rs).                                                 *)
(***************************************************************************)
\* a snapshot segment keeps at most this many logs when a command appends
SnapshotLogLimit == 100

\* VecDeque::with_capacity(1000): the room the deque is created with
SnapshotCapacity == 1000

\* usize::MAX as far as TLC's integers reach; every index of the model is below it
USizeMax == 2147483646 + 1

wrapping_sub(a, b) == IF a >= b THEN a - b ELSE USizeMax - (b - a) + 1

AppOf(game, snaps, plrs) == [current_game |-> game, snapshots |-> snaps, players |-> plrs]

Back(snaps) == snaps[Len(snaps)]

\* what perform_unchecked hands back, with the App it leaves
Returned(app, res) == [app |-> app, result |-> res]

\* App::new
AppNew(g) == AppOf(g, << <<g, <<>> >> >>, <<>>)

RECURSIVE apply_game_logs_range(_, _, _, _, _)
\* the loop of App::apply_game_logs over logs[lo..hi] (1-based), left to right,
\* `game` being the loop's Game on entry (the range is halved to keep the
\* evaluation shallow; each log is handled as the loop body handles it)
apply_game_logs_range(baseline, game, logs, lo, hi) ==
  IF lo > hi THEN Ok(game, <<>>)
  ELSE IF lo < hi
  THEN LET mid == (lo + hi) \div 2
           r == apply_game_logs_range(baseline, game, logs, lo, mid)
       IN IF r.kind = "Ok"
          THEN apply_game_logs_range(baseline, r.game, logs, mid + 1, hi)
          ELSE r
  ELSE LET log == logs[lo]
       IN IF log.t = "Rollback"
          THEN IF log.li > Len(logs) THEN Panic("slice index out of range")
               \* logs[..li] holds this very Rollback again: its replay, from
               \* the same baseline, comes back to it without end
               ELSE IF log.li >= lo THEN Diverges
               ELSE apply_game_logs_range(baseline, baseline, SubSeq(logs, 1, log.li), 1, log.li)
          ELSE apply_log(game, log)

\* App::apply_game_logs
apply_game_logs(baseline, game, logs) == apply_game_logs_range(baseline, game, logs, 1, Len(logs))

\* App::rollback_to; overflow_checks tells whether the build panics on `len() - 1` of an empty segment
rollback_to(app, snapshot_idx, log_idx, overflow_checks) ==
  IF snapshot_idx >= Len(app.snapshots)
  THEN Err(<<"HistoryNotFound", snapshot_idx, log_idx>>)
  ELSE LET baseline == app.snapshots[snapshot_idx + 1][1]
           logs_to_apply == app.snapshots[snapshot_idx + 1][2]
       IN IF Len(logs_to_apply) = 0 /\ overflow_checks
          THEN Panic("attempt to subtract with overflow")
          ELSE IF wrapping_sub(Len(logs_to_apply), 1) < log_idx
          THEN Err(<<"HistoryNotFound", snapshot_idx, log_idx>>)
          ELSE IF log_idx > Len(logs_to_apply)
          THEN Panic("slice index out of range")
          ELSE apply_game_logs(baseline, baseline, SubSeq(logs_to_apply, 1, log_idx))

\* App::register_player
register_player(app, pid) ==
  IF contains_key(app.players, pid)
  THEN Returned(app, Err(<<"PlayerAlreadyExists", pid>>))
  ELSE Returned([app EXCEPT !.players = insert(app.players, NewPlayer(pid))],
                Ok(app.current_game, <<>>))

\* App::unregister_player
unregister_player(app, pid) ==
  IF contains_key(app.players, pid)
  THEN Returned([app EXCEPT !.players = remove(app.players, pid)], Ok(app.current_game, <<>>))
  ELSE Returned(app, Err(<<"PlayerNotFound", pid>>))

\* give_creatures_to_player checking each id only as it hands it over
give_creatures_one_by_one(app, pid, cids) ==
  IF ~contains_key(app.players, pid)
  THEN Returned(app, Err(<<"PlayerNotFound", pid>>))
  ELSE LET bad == {i \in 1..Len(cids) : check_creature_id(app.current_game, cids[i]).kind # "Ok"}
           stop == IF bad = {} THEN Len(cids) + 1
                   ELSE CHOOSE i \in bad : \A j \in bad : i <= j
           Give == [p \in {app.players[pid]} |-> [p EXCEPT !.creatures = @ \cup {cids[i] : i \in 1..(stop - 1)}]]
           given == [app EXCEPT !.players = mutate(app.players, pid, Give)]
       IN IF bad = {} THEN Returned(given, Ok(app.current_game, <<>>))
          ELSE Returned(given, check_creature_id(app.current_game, cids[stop]))

\* App::give_creatures_to_player
give_creatures_to_player(app, pid, cids) ==
  IF \E i \in 1..Len(cids) : check_creature_id(app.current_game, cids[i]).kind # "Ok"
  THEN Returned(app, check_creature_id(app.current_game,
                  cids[CHOOSE i \in 1..Len(cids) :
                         /\ check_creature_id(app.current_game, cids[i]).kind # "Ok"
                         /\ \A j \in 1..(i - 1) :
                              check_creature_id(app.current_game, cids[j]).kind = "Ok"]))
  ELSE IF contains_key(app.players, pid)
  THEN LET Give == [p \in {app.players[pid]} |-> [p EXCEPT !.creatures = @ \cup Range(cids)]]
       IN Returned([app EXCEPT !.players = mutate(app.players, pid, Give)],
                   Ok(app.current_game, <<>>))
  ELSE Returned(app, Err(<<"PlayerNotFound", pid>>))

\* App::remove_creatures_from_player
remove_creatures_from_player(app, pid, cids) ==
  IF contains_key(app.players, pid)
  THEN LET Take == [p \in {app.players[pid]} |-> [p EXCEPT !.creatures = @ \ Range(cids)]]
       IN Returned([app EXCEPT !.players = mutate(app.players, pid, Take)],
                   Ok(app.current_game, <<>>))
  ELSE Returned(app, Err(<<"PlayerNotFound", pid>>))

\* set_player_scene recorded as a log of the current segment
set_player_scene_logged(app, pid, scene) ==
  IF contains_key(app.players, pid)
  THEN LET Focus == [p \in {app.players[pid]} |-> [p EXCEPT !.scene = scene]]
           log == [t |-> "SetPlayerScene", pid |-> pid, scene |-> scene]
       IN Returned(AppOf(app.current_game,
                         [app.snapshots EXCEPT ![Len(app.snapshots)] =
                            <<@[1], Append(@[2], log)>>],
                         mutate(app.players, pid, Focus)),
                   Ok(app.current_game, <<log>>))
  ELSE Returned(app, Err(<<"PlayerNotFound", pid>>))

\* App::set_player_scene
set_player_scene(app, pid, scene) ==
  IF contains_key(app.players, pid)
  THEN LET Focus == [p \in {app.players[pid]} |-> [p EXCEPT !.scene = scene]]
       IN Returned([app EXCEPT !.players = mutate(app.players, pid, Focus)],
                   Ok(app.current_game, <<>>))
  ELSE Returned(app, Err(<<"PlayerNotFound", pid>>))

\* a Rollback that cuts the history back to the point it restores
perform_rollback_truncating(app, snapshot_idx, log_idx, overflow_checks) ==
  LET newgame == rollback_to(app, snapshot_idx, log_idx, overflow_checks)
      log == [t |-> "Rollback", si |-> snapshot_idx, li |-> log_idx]
      kept == SubSeq(app.snapshots, 1, snapshot_idx + 1)
  IN IF newgame.kind # "Ok" THEN Returned(app, newgame)
     ELSE Returned(AppOf(newgame.game,
                         [kept EXCEPT ![Len(kept)] =
                            <<@[1], Append(SubSeq(@[2], 1, log_idx), log)>>],
                         app.players),
                   Ok(newgame.game, <<log>>))

\* the Rollback arm of App::perform_unchecked
perform_rollback(app, snapshot_idx, log_idx, overflow_checks) ==
  LET newgame == rollback_to(app, snapshot_idx, log_idx, overflow_checks)
      log == [t |-> "Rollback", si |-> snapshot_idx, li |-> log_idx]
  IN IF newgame.kind # "Ok" THEN Returned(app, newgame)
     ELSE Returned(AppOf(newgame.game,
                         [app.snapshots EXCEPT ![Len(app.snapshots)] =
                            <<@[1], Append(@[2], log)>>],
                         app.players),
                   Ok(newgame.game, <<log>>))

\* the test as the specification words it: an empty segment rolls too
needs_new_snapshot_when_empty(snaps, logs) ==
  \/ Len(snaps) = 0
  \/ Len(Back(snaps)[2]) = 0
  \/ Len(Back(snaps)[2]) + Len(logs) > SnapshotLogLimit

\* the test that rolls to a new snapshot (the `if` of the default arm)
needs_new_snapshot(snaps, logs) ==
  Len(snaps) = 0 \/ Len(Back(snaps)[2]) + Len(logs) > SnapshotLogLimit

\* the default arm taking the new snapshot after current_game was replaced
perform_game_command_late_baseline(app, c) ==
  LET r == game_perform_unchecked(app.current_game, c)
  IN IF r.kind # "Ok" THEN Returned(app, r)
     ELSE LET pushed == IF Len(app.snapshots) = 0
                              \/ Len(Back(app.snapshots)[2]) + Len(r.logs) > SnapshotLogLimit
                        THEN Append(app.snapshots, <<r.game, <<>> >>)
                        ELSE app.snapshots
              extended == [pushed EXCEPT ![Len(pushed)] = <<@[1], @[2] \o r.logs>>]
          IN Returned(AppOf(r.game, extended, app.players), Ok(r.game, r.logs))

\* the default arm with a deque that drops its oldest snapshot when full
perform_game_command_bounded(app, c) ==
  LET r == game_perform_unchecked(app.current_game, c)
  IN IF r.kind # "Ok" THEN Returned(app, r)
     ELSE LET rolls == Len(app.snapshots) = 0
                         \/ Len(Back(app.snapshots)[2]) + Len(r.logs) > SnapshotLogLimit
              room == IF rolls /\ Len(app.snapshots) >= SnapshotCapacity
                      THEN Tail(app.snapshots) ELSE app.snapshots
              pushed == IF rolls THEN Append(room, <<app.current_game, <<>> >>) ELSE room
              extended == [pushed EXCEPT ![Len(pushed)] = <<@[1], @[2] \o r.logs>>]
          IN Returned(AppOf(r.game, extended, app.players), Ok(r.game, r.logs))

\* the default arm of App::perform_unchecked: the command goes to the Game
perform_game_command(app, c) ==
  LET r == game_perform_unchecked(app.current_game, c)
  IN IF r.kind # "Ok" THEN Returned(app, r)
     ELSE LET pushed == IF needs_new_snapshot(app.snapshots, r.logs)
                        THEN Append(app.snapshots, <<app.current_game, <<>> >>)
                        ELSE app.snapshots
              extended == [pushed EXCEPT ![Len(pushed)] = <<@[1], @[2] \o r.logs>>]
          IN Returned(AppOf(r.game, extended, app.players), Ok(r.game, r.logs))

MetaCommands ==
  {"RegisterPlayer", "UnregisterPlayer", "GiveCreaturesToPlayer",
   "RemoveCreaturesFromPlayer", "SetPlayerScene"}

\* App::perform_unchecked
perform_unchecked(app, c, overflow_checks) ==
  CASE c.t = "RegisterPlayer" -> register_player(app, c.pid)
    [] c.t = "UnregisterPlayer" -> unregister_player(app, c.pid)
    [] c.t = "GiveCreaturesToPlayer" -> give_creatures_to_player(app, c.pid, c.cids)
    [] c.t = "RemoveCreaturesFromPlayer" -> remove_creatures_from_player(app, c.pid, c.cids)
    [] c.t = "SetPlayerScene" -> set_player_scene(app, c.pid, c.scene)
    [] c.t = "Rollback" -> perform_rollback(app, c.si, c.li, overflow_checks)
    [] OTHER -> perform_game_command(app, c)

(***************************************************************************)
(* Creature (pandt/src/creature.rs): health, energy and the stored         *)
(* conditions; DynamicCreature adds the conditions of its class and of the *)
(* volumes it stands in.  HP, Energy and Rounds are u8.                    *)
(***************************************************************************)
\* u8::MAX
U8Max == 255

Min(a, b) == IF a <= b THEN a ELSE b

\* a subtraction that does not stop at 0
unchecked_sub(a, b) == a - b

\* u8::saturating_sub, u8::saturating_add, and the cast `as u8`
saturating_sub(a, b) == IF a >= b THEN a - b ELSE 0

saturating_add(a, b) == IF a + b <= U8Max THEN a + b ELSE U8Max

as_u8(n) == n % (U8Max + 1)

\* Duration
Interminate == [d |-> "Interminate", n |-> 0]

Rounds(n) == [d |-> "Rounds", n |-> n]

\* Condition
Dead == [c |-> "Dead"]

Incapacitated == [c |-> "Incapacitated"]

RecurringEffect(eff) == [c |-> "RecurringEffect", eff |-> eff]

\* Condition::apply: the AppliedCondition
AppliedCondition(condition, remaining) == [condition |-> condition, remaining |-> remaining]

\* Effect; a Dice is held as the total its roll gives
EffDamage(dice) == [e |-> "Damage", dice |-> dice]

EffHeal(dice) == [e |-> "Heal", dice |-> dice]

EffGenerateEnergy(nrg) == [e |-> "GenerateEnergy", nrg |-> nrg]

MultiEffect(effects) == [e |-> "MultiEffect", effects |-> effects]

EffApplyCondition(duration, condition) ==
  [e |-> "ApplyCondition", duration |-> duration, condition |-> condition]

\* CreatureLog
LogDamage(hp) == [l |-> "Damage", hp |-> hp]

LogHeal(hp) == [l |-> "Heal", hp |-> hp]

LogGenerateEnergy(nrg) == [l |-> "GenerateEnergy", nrg |-> nrg]

LogReduceEnergy(nrg) == [l |-> "ReduceEnergy", nrg |-> nrg]

LogApplyCondition(id, duration, condition) ==
  [l |-> "ApplyCondition", id |-> id, duration |-> duration, condition |-> condition]

DecrementConditionRemaining(id) == [l |-> "DecrementConditionRemaining", id |-> id]

RemoveCondition(id) == [l |-> "RemoveCondition", id |-> id]

\* Creature::create: 10 health and 10 energy, no condition
t_creature ==
  [cur_health |-> 10, max_health |-> 10, cur_energy |-> 10, max_energy |-> 10,
   conditions |-> <<>>]

NoCreature ==
  [cur_health |-> 0, max_health |-> 0, cur_energy |-> 0, max_energy |-> 0,
   conditions |-> <<>>]

\* Ok(ChangedCreature { creature, logs })
Changed(creature, logs) == [kind |-> "Ok", creature |-> creature, logs |-> logs, err |-> <<>>]

\* Err(GameError) of a creature operation
Failed(e) == [kind |-> "Err", creature |-> NoCreature, logs |-> <<>>, err |-> e]

\* `*dur -= 1` on Rounds(0): a panic where overflow is checked, Rounds(255)
\* where it is not; tick never emits the log that leads here
Underflows == [kind |-> "Underflow", creature |-> NoCreature, logs |-> <<>>, err |-> <<>>]

\* Creature::apply_log
creature_apply_log(creature, item) ==
  CASE item.l = "Damage" ->
         Changed([creature EXCEPT !.cur_health = saturating_sub(@, item.hp)], <<>>)
    [] item.l = "Heal" ->
         Changed([creature EXCEPT !.cur_health =
                    Min(saturating_add(@, item.hp), creature.max_health)], <<>>)
    [] item.l = "GenerateEnergy" ->
         Changed([creature EXCEPT !.cur_energy =
                    Min(saturating_add(@, item.nrg), creature.max_energy)], <<>>)
    [] item.l = "ReduceEnergy" ->
         IF item.nrg > creature.cur_energy THEN Failed(<<"NotEnoughEnergy", item.nrg>>)
         ELSE Changed([creature EXCEPT !.cur_energy = @ - item.nrg], <<>>)
    [] item.l = "ApplyCondition" ->
         Changed([creature EXCEPT !.conditions =
                    [k \in DOMAIN @ \cup {item.id} |->
                       IF k = item.id THEN AppliedCondition(item.condition, item.duration)
                       ELSE @[k]]], <<>>)
    [] item.l = "DecrementConditionRemaining" ->
         IF item.id \notin DOMAIN creature.conditions
         THEN Failed(<<"ConditionNotFound", item.id>>)
         ELSE IF creature.conditions[item.id].remaining.d = "Interminate"
         THEN Failed(<<"BuggyProgram">>)
         ELSE IF creature.conditions[item.id].remaining.n = 0 THEN Underflows
         ELSE Changed([creature EXCEPT !.conditions[item.id].remaining = Rounds(@.n - 1)], <<>>)
    [] item.l = "RemoveCondition" ->
         IF item.id \notin DOMAIN creature.conditions
         THEN Failed(<<"ConditionNotFound", item.id>>)
         ELSE Changed([creature EXCEPT !.conditions =
                         [k \in DOMAIN @ \ {item.id} |-> @[k]]], <<>>)

\* Creature::change
change(creature) == Changed(creature, <<>>)

\* ChangedCreature::apply
changed_apply(changes, log) ==
  LET new == creature_apply_log(changes.creature, log)
  IN IF new.kind = "Ok" THEN Changed(new.creature, Append(changes.logs, log)) ELSE new

\* a merge that takes the other's logs and keeps its own creature
merge_logs_only(changes, other) == Changed(changes.creature, changes.logs \o other.logs)

\* ChangedCreature::merge
merge(changes, other) == Changed(other.creature, changes.logs \o other.logs)

RECURSIVE apply_all(_, _, _)
\* the loop `for op in &ops { changes = changes.apply(op)? }` from ops[i] on
apply_all(changes, ops, i) ==
  IF i > Len(ops) THEN changes
  ELSE LET next == changed_apply(changes, ops[i])
       IN IF next.kind = "Ok" THEN apply_all(next, ops, i + 1) ELSE next

\* DynamicCreature: the creature with its class's conditions and the
\* conditions of the volumes that hold it in the combat's scene
DynamicCreature(creature, class_conditions, volume_conditions) ==
  [creature |-> creature, class |-> class_conditions, volume |-> volume_conditions]

\* the order in which a HashMap with these keys is iterated: hash_order
\* ranks every ConditionID, and the keys present come out by rank
iteration(keys, hash_order) ==
  LET present(id) == id \in keys
  IN SelectSeq(hash_order, present)

\* conditions() giving the class's conditions one round
conditions_class_for_a_round(dc, hash_order) ==
  LET ids == iteration(DOMAIN dc.creature.conditions, hash_order)
  IN [i \in 1..Len(ids) |-> dc.creature.conditions[ids[i]]]
     \o [i \in 1..Len(dc.class) |-> AppliedCondition(dc.class[i], Rounds(1))]
     \o dc.volume

\* DynamicCreature::conditions
conditions(dc, hash_order) ==
  LET ids == iteration(DOMAIN dc.creature.conditions, hash_order)
  IN [i \in 1..Len(ids) |-> dc.creature.conditions[ids[i]]]
     \o [i \in 1..Len(dc.class) |-> AppliedCondition(dc.class[i], Interminate)]
     \o dc.volume

\* ConditionID::gen: ids are handed out in turn, `fresh` being the next one
RECURSIVE gens(_)
\* how many ids eff2log takes for an effect
gens(effect) ==
  CASE effect.e = "Damage" -> 1
    [] effect.e = "ApplyCondition" -> 1
    [] effect.e = "MultiEffect" ->
         IF effect.effects = <<>> THEN 0
         ELSE gens(Head(effect.effects)) + gens(MultiEffect(Tail(effect.effects)))
    [] OTHER -> 0

\* DynamicCreature::generate_energy
generate_energy(dc, nrg) ==
  LET delta == dc.creature.max_energy - dc.creature.cur_energy
  IN IF delta > 0 THEN <<LogGenerateEnergy(Min(delta, nrg))>> ELSE <<>>

\* DynamicCreature::damage
damage(dc, expr, fresh) ==
  LET amt == as_u8(expr)
  IN IF amt >= dc.creature.cur_health
     THEN <<LogDamage(dc.creature.cur_health), LogApplyCondition(fresh, Interminate, Dead)>>
     ELSE <<LogDamage(amt)>>

\* DynamicCreature::heal
heal(dc, expr) ==
  LET amt == as_u8(expr)
      missing == dc.creature.max_health - dc.creature.cur_health
  IN <<LogHeal(Min(missing, amt))>>

RECURSIVE eff2log(_, _, _)
\* DynamicCreature::eff2log
eff2log(dc, effect, fresh) ==
  CASE effect.e = "Damage" -> damage(dc, effect.dice, fresh)
    [] effect.e = "Heal" -> heal(dc, effect.dice)
    [] effect.e = "GenerateEnergy" -> generate_energy(dc, effect.nrg)
    [] effect.e = "MultiEffect" ->
         IF effect.effects = <<>> THEN <<>>
         ELSE eff2log(dc, Head(effect.effects), fresh)
              \o eff2log(dc, MultiEffect(Tail(effect.effects)),
                         fresh + gens(Head(effect.effects)))
    [] effect.e = "ApplyCondition" ->
         <<LogApplyCondition(fresh, effect.duration, effect.condition)>>

\* DynamicCreature::apply_effect
apply_effect(dc, effect, fresh) ==
  apply_all(change(dc.creature), eff2log(dc, effect, fresh), 1)

\* what the effect loop of tick carries: the ChangedCreature so far and, as
\* history, the positions in conditions() whose effect it applied
Ticking(changes, fired) == [changes |-> changes, fired |-> fired]

\* the test without the look at the rounds left
fires_whatever_is_left(condition) == condition.condition.c = "RecurringEffect"

\* the test of the effect loop: a RecurringEffect that has rounds left
fires(condition) ==
  /\ condition.condition.c = "RecurringEffect"
  /\ condition.remaining # Rounds(0)

RECURSIVE tick_effects(_, _, _, _, _)
\* the first loop of tick, from view[i] on: `view` is self.conditions(), taken
\* once from the creature as it was; each effect applies to the creature so far
tick_effects(dc, view, i, ticking, fresh) ==
  IF i > Len(view) THEN ticking
  ELSE IF fires(view[i])
  THEN LET eff == view[i].condition.eff
           other == apply_effect(DynamicCreature(ticking.changes.creature, dc.class, dc.volume),
                                 eff, fresh)
       IN IF other.kind # "Ok" THEN Ticking(other, ticking.fired)
          ELSE tick_effects(dc, view, i + 1,
                            Ticking(merge(ticking.changes, other), Append(ticking.fired, i)),
                            fresh + gens(eff))
  ELSE tick_effects(dc, view, i + 1, ticking, fresh)

RECURSIVE tick_durations_one_early(_, _, _)
\* the second loop removing a condition already on its last round
tick_durations_one_early(changes, ids, i) ==
  IF i > Len(ids) THEN changes
  ELSE LET remaining == changes.creature.conditions[ids[i]].remaining
           next == IF remaining.d = "Interminate" THEN changes
                   ELSE IF remaining.n > 1
                   THEN changed_apply(changes, DecrementConditionRemaining(ids[i]))
                   ELSE changed_apply(changes, RemoveCondition(ids[i]))
       IN IF next.kind = "Ok" THEN tick_durations_one_early(next, ids, i + 1) ELSE next

RECURSIVE tick_durations(_, _, _)
\* the second loop of tick, from ids[i] on: `ids` are the keys of the
\* conditions stored on the creature the effects left
tick_durations(changes, ids, i) ==
  IF i > Len(ids) THEN changes
  ELSE LET remaining == changes.creature.conditions[ids[i]].remaining
           next == IF remaining.d = "Interminate" THEN changes
                   ELSE IF remaining.n > 0
                   THEN changed_apply(changes, DecrementConditionRemaining(ids[i]))
                   ELSE changed_apply(changes, RemoveCondition(ids[i]))
       IN IF next.kind = "Ok" THEN tick_durations(next, ids, i + 1) ELSE next

\* tick running its duration loop before its effect loop
tick_durations_first(dc, hash_order, fresh) ==
  LET durations == tick_durations(change(dc.creature),
                                  iteration(DOMAIN dc.creature.conditions, hash_order), 1)
  IN IF durations.kind # "Ok" THEN Ticking(durations, <<>>)
     ELSE tick_effects(dc, conditions(dc, hash_order), 1, Ticking(durations, <<>>), fresh)

\* DynamicCreature::tick
tick(dc, hash_order, fresh) ==
  LET effects == tick_effects(dc, conditions(dc, hash_order), 1,
                              Ticking(change(dc.creature), <<>>), fresh)
  IN IF effects.changes.kind # "Ok" THEN effects
     ELSE Ticking(tick_durations(effects.changes,
                                 iteration(DOMAIN effects.changes.creature.conditions,
                                           hash_order), 1),
                  effects.fired)

(***************************************************************************)
(* Grid (pandt/src/grid.rs): the terrain is the collection of open points; *)
(* a Point3 is <<x, y, z>>.                                                *)
(***************************************************************************)
\* Volume::AABB(AABB { x, y, z }) and Volume::Sphere
AABB(x, y, z) == [v |-> "AABB", x |-> x, y |-> y, z |-> z]

Sphere == [v |-> "Sphere"]

is_open(terrain, pt) == pt \in terrain

Abs(n) == IF n < 0 THEN -n ELSE n

\* TileSystem::points_in_volume of an AABB (the other volumes are unimplemented!)
points_in_volume(volume, pt) ==
  {<<x, y, z>> : x \in pt[1]..(pt[1] + volume.x - 1),
                 y \in pt[2]..(pt[2] + volume.y - 1),
                 z \in pt[3]..(pt[3] + volume.z - 1)}

\* a fit test that looks at the corner of the volume only
corner_fits_at_point(volume, terrain, pt) == pt \in terrain

\* TileSystem::volume_fits_at_point
volume_fits_at_point(volume, terrain, pt) ==
  \A p \in points_in_volume(volume, pt) : p \in terrain

\* the (x, y) of the two loops of point3_neighbors, in their order
Steps ==
  << <<-1, -1>>, <<-1, 0>>, <<-1, 1>>, <<0, -1>>, <<0, 1>>, <<1, -1>>, <<1, 0>>, <<1, 1>> >>

\* the cost of a step
step_cost(system, is_angle) ==
  IF is_angle THEN (IF system = "Realistic" THEN 141 ELSE 100)
  ELSE (IF system = "Realistic" THEN 100 ELSE 99)

\* the test before `continue`: `a && b || c` is `(a && b) || c`
skips(terrain, pt, neighbor, is_angle) ==
  \/ is_angle /\ ~is_open(terrain, <<neighbor[1], pt[2], pt[3]>>)
  \/ ~is_open(terrain, <<pt[1], neighbor[2], pt[3]>>)

\* what point3_neighbors gives: the Vec, or the panic of unimplemented!
Neighbors(results) == [kind |-> "Ok", results |-> results]

Unimplemented == [kind |-> "Panic", results |-> <<>>]

RECURSIVE neighbors_from(_, _, _, _, _, _)
\* the loops of point3_neighbors from Steps[i] on
neighbors_from(system, terrain, volume, pt, i, results) ==
  IF i > Len(Steps) THEN Neighbors(results)
  ELSE LET neighbor == <<pt[1] + Steps[i][1], pt[2] + Steps[i][2], pt[3]>>
           is_angle == Abs(Steps[i][1]) = Abs(Steps[i][2])
       IN IF ~is_open(terrain, neighbor)
          THEN neighbors_from(system, terrain, volume, pt, i + 1, results)
          ELSE IF volume.v # "AABB" THEN Unimplemented
          ELSE IF ~volume_fits_at_point(volume, terrain, neighbor)
          THEN neighbors_from(system, terrain, volume, pt, i + 1, results)
          ELSE IF skips(terrain, pt, neighbor, is_angle)
          THEN neighbors_from(system, terrain, volume, pt, i + 1, results)
          ELSE neighbors_from(system, terrain, volume, pt, i + 1,
                              Append(results, <<neighbor, step_cost(system, is_angle)>>))

\* TileSystem::point3_neighbors
point3_neighbors(system, terrain, volume, pt) ==
  neighbors_from(system, terrain, volume, pt, 1, <<>>)

RECURSIVE isqrt_between(_, _, _)
\* the largest r in lo..hi with r * r <= n
isqrt_between(n, lo, hi) ==
  IF lo >= hi THEN lo
  ELSE LET mid == (lo + hi + 1) \div 2
       IN IF mid * mid <= n THEN isqrt_between(n, mid, hi)
          ELSE isqrt_between(n, lo, mid - 1)

\* TileSystem::point3_distance, in centimeters: Euclidean in Realistic (the
\* meters cut to whole centimeters), the larger of |dx| and |dy| in DnD
point3_distance(system, pos1, pos2) ==
  LET xdiff == Abs(pos1[1] - pos2[1])
      ydiff == Abs(pos1[2] - pos2[2])
      zdiff == Abs(pos1[3] - pos2[3])
  IN IF system = "Realistic"
     THEN isqrt_between(10000 * (xdiff * xdiff + ydiff * ydiff + zdiff * zdiff),
                        0, 100 * (xdiff + ydiff + zdiff))
     ELSE (IF xdiff > ydiff THEN xdiff ELSE ydiff) * 100

\* TileSystem::open_points_in_range: the open points of the square of
\* range / 100 meters around start at z = 0, x outermost
open_points_in_range(start, terrain, range) ==
  LET meters == range \div 100
      side == 2 * meters + 1
      end_point(i) == <<start[1] - meters + ((i - 1) \div side),
                        start[2] - meters + ((i - 1) % side), 0>>
      open(pt) == is_open(terrain, pt)
  IN SelectSeq([i \in 1..(side * side) |-> end_point(i)], open)

RECURSIVE reverse_path(_, _)
\* reverse_path: from the node back through the parents, each entry removed
\* as it is used, and the whole reversed
reverse_path(parents, node) ==
  IF node \in DOMAIN parents
  THEN Append(reverse_path([n \in DOMAIN parents \ {node} |-> parents[n]],
                           parents[node].parent), node)
  ELSE <<node>>

\* InvCmpHolder { key, payload: (cost, node) }
InvCmpHolder(key, cost, node) == [key |-> key, cost |-> cost, node |-> node]

\* the entries BinaryHeap::pop may give: those of the least key (the heap
\* does not order entries of equal key)
poppable(to_see) == {e \in to_see : \A other \in to_see : e.key <= other.key}

\* astar_multi before its loop; the success predicates are the equalities
\* with the goals, numbered as they come.  Beside the variables of the
\* function the state counts the pops, keeps the predicates the last pop
\* evaluated, and notes at each found node the predicate and the pop.
astar_begin(system, volume, start, max_cost, goals) ==
  [system |-> system, volume |-> volume, start |-> start, max_cost |-> max_cost,
   successes |-> [i \in 1..Len(goals) |-> [pred |-> i, goal |-> goals[i]]],
   to_see |-> {InvCmpHolder(point3_distance(system, start, start), 0, start)},
   parents |-> <<>>,
   found_nodes |-> <<>>,
   pops |-> 0,
   evaluated |-> {},
   broke |-> FALSE]

\* a ceiling that shuts out the cost equal to it
below_max_cost(new_cost, max_cost) == new_cost < max_cost

\* astar_multi: the ceiling test on a neighbour's cost
within_max_cost(new_cost, max_cost) == new_cost <= max_cost

RECURSIVE astar_neighbours(_, _, _, _, _)
\* the loop over neighbours(&node), from neighbours[i] on
astar_neighbours(loop, node, cost, neighbours, i) ==
  IF i > Len(neighbours) THEN loop
  ELSE LET neighbour == neighbours[i][1]
           move_cost == neighbours[i][2]
           new_cost == cost + move_cost
           unseen_or_cheaper == \/ neighbour \notin DOMAIN loop.parents
                                \/ new_cost < loop.parents[neighbour].cost
       IN IF /\ neighbour # loop.start
             /\ unseen_or_cheaper
             /\ within_max_cost(new_cost, loop.max_cost)
          THEN astar_neighbours(
                 [loop EXCEPT
                    !.parents = [n \in DOMAIN @ \cup {neighbour} |->
                                   IF n = neighbour THEN [parent |-> node, cost |-> new_cost]
                                   ELSE @[n]],
                    !.to_see = @ \cup {InvCmpHolder(
                                         new_cost + point3_distance(loop.system, loop.start,
                                                                    neighbour),
                                         new_cost, neighbour)}],
                 node, cost, neighbours, i + 1)
          ELSE astar_neighbours(loop, node, cost, neighbours, i + 1)

\* a retain that drops nothing
retain_all(successes, node) == successes

\* astar_multi: successes.retain_mut keeps the predicates the node does not
\* satisfy
retain_mut(successes, node) ==
  LET not_successful(success) == success.goal # node
  IN SelectSeq(successes, not_successful)

\* one turn of the loop of astar_multi with `popped` taken from to_see
astar_pop(loop, terrain, popped) ==
  LET node == popped.node
      cost == popped.cost
      was_successful(success) == success.goal = node
      satisfied == SelectSeq(loop.successes, was_successful)
      taken == [loop EXCEPT
                  !.to_see = @ \ {popped},
                  !.successes = retain_mut(@, node),
                  !.found_nodes = @ \o [i \in 1..Len(satisfied) |->
                                          [node |-> node, cost |-> cost,
                                           pred |-> satisfied[i].pred, at |-> loop.pops + 1]],
                  !.pops = @ + 1,
                  !.evaluated = {loop.successes[i].pred : i \in 1..Len(loop.successes)}]
  IN IF taken.successes = <<>> THEN [taken EXCEPT !.broke = TRUE]
     ELSE IF node \in DOMAIN taken.parents /\ cost > taken.parents[node].cost THEN taken
     ELSE astar_neighbours(taken, node, cost,
                           point3_neighbors(loop.system, terrain, loop.volume, node).results,
                           1)

\* the loop of astar_multi has ended
astar_ended(loop) == loop.broke \/ loop.to_see = {}

\* what astar_multi returns: a path and the cost per found node
astar_results(loop) ==
  [i \in 1..Len(loop.found_nodes) |->
     [path |-> reverse_path(loop.parents, loop.found_nodes[i].node),
      cost |-> loop.found_nodes[i].cost,
      pred |-> loop.found_nodes[i].pred,
      at |-> loop.found_nodes[i].at]]

\* Option<(Vec<Point3>, Distance)>
None == [some |-> FALSE, path |-> <<>>, cost |-> 0]

Some(path, cost) == [some |-> TRUE, path |-> path, cost |-> cost]

\* TileSystem::find_path after its search
find_path_result(results) ==
  IF results = <<>> THEN None ELSE Some(results[1].path, results[1].cost)

\* success predicates for every open point in range, the start among them
accessible_goals_and_start(start, terrain, speed) ==
  open_points_in_range(start, terrain, speed)

\* TileSystem::get_all_accessible: the success predicates
accessible_goals(start, terrain, speed) ==
  LET other(pt) == pt # start
  IN SelectSeq(open_points_in_range(start, terrain, speed), other)

\* TileSystem::get_all_accessible after its search
accessible_result(results, speed) ==
  LET within(r) == r.cost <= speed
      kept == SelectSeq(results, within)
  IN [i \in 1..Len(kept) |-> kept[i].path[Len(kept[i].path)]]

(***************************************************************************)
(* The state machine: one action per command of App::perform_unchecked.    *)
(***************************************************************************)
PlayerIDs == {"p1"}

App == AppOf(current_game, snapshots, players)

\* the history after a call that took the App from `before` to `after`
hist_after(h, before, after) ==
  LET n == Len(Back(after.snapshots)[2])
  IN IF Len(after.snapshots) > Len(before.snapshots)
     THEN Append(h, (n :> after.current_game) @@ (0 :> before.current_game))
     ELSE IF n # Len(Back(before.snapshots)[2])
     THEN [h EXCEPT ![Len(h)] = (n :> after.current_game) @@ @]
     ELSE h

\* the process is alive: no earlier call panicked or overflowed the stack
Alive == result.kind \notin {"Panic", "Diverges"}

\* only a call that returns Ok uses up the budget of its kind
spent(b, kind, res) == IF res.kind = "Ok" THEN [b EXCEPT ![kind] = @ - 1] ELSE b

\* no creature operation is explored
CreatureIdle ==
  /\ rogue = t_creature
  /\ rogue_class = <<>>
  /\ rogue_volumes = <<>>
  /\ next_condition_id = 0
  /\ op = [t |-> "None"]
  /\ age = <<>>
  /\ left = [tick |-> 0, change |-> 0]

\* no grid query is explored
\* no operation on the IndexedHashMap is explored
IndexedIdle ==
  /\ indexed = <<>>
  /\ indexed_op = [t |-> "None"]

\* no service runs
ActorIdle ==
  /\ service = "None"
  /\ waiters = <<>>
  /\ pollers = <<>>
  /\ commanders = <<>>
  /\ persisted = <<>>

\* no AuthenticatedService is called
AuthIdle ==
  /\ user_games = {}
  /\ invited = {}
  /\ auth = [t |-> "None"]

\* no capability-based App is explored
CapabilityIdle ==
  /\ creatures = <<>>
  /\ current_combat = <<>>
  /\ combat_history = <<>>
  /\ cap_op = [t |-> "None"]

PathIdle ==
  /\ search = [t |-> "None"]
  /\ path_query = [t |-> "None"]
  /\ accessible = [t |-> "None"]

\* no grid query is explored
GridIdle ==
  /\ scene_terrain = {}
  /\ grid_query = [t |-> "None"]
  /\ PathIdle

Fresh(b) ==
  /\ current_game = t_game
  /\ snapshots = AppNew(t_game).snapshots
  /\ players = AppNew(t_game).players
  /\ cmd = [t |-> "None"]
  /\ result = NoResult
  /\ hist = << (0 :> t_game) >>
  /\ budget = b
  /\ CreatureIdle
  /\ GridIdle
  /\ IndexedIdle
  /\ ActorIdle
  /\ AuthIdle
  /\ CapabilityIdle

Init == Fresh([game |-> MaxGameCmds, rollback |-> MaxRollbacks, meta |-> MaxMetaCmds])

RegisterPlayer ==
  \E pid \in PlayerIDs :
    LET c == [t |-> "RegisterPlayer", pid |-> pid]
        r == register_player(App, c.pid)
    IN /\ Alive
       /\ budget.meta > 0
       /\ current_game' = r.app.current_game
       /\ snapshots' = r.app.snapshots
       /\ players' = r.app.players
       /\ cmd' = c
       /\ result' = r.result
       /\ hist' = hist_after(hist, App, r.app)
       /\ budget' = spent(budget, "meta", r.result)
       /\ UNCHANGED <<creature_vars, grid_vars, indexed_vars, actor_vars, auth_vars, capability_vars>>

UnregisterPlayer ==
  \E pid \in PlayerIDs :
    LET c == [t |-> "UnregisterPlayer", pid |-> pid]
        r == unregister_player(App, c.pid)
    IN /\ Alive
       /\ budget.meta > 0
       /\ current_game' = r.app.current_game
       /\ snapshots' = r.app.snapshots
       /\ players' = r.app.players
       /\ cmd' = c
       /\ result' = r.result
       /\ hist' = hist_after(hist, App, r.app)
       /\ budget' = spent(budget, "meta", r.result)
       /\ UNCHANGED <<creature_vars, grid_vars, indexed_vars, actor_vars, auth_vars, capability_vars>>

GiveCreaturesToPlayer ==
  \E pid \in PlayerIDs, cids \in {<<"cleric">>, <<"cleric", UnknownCreature>>} :
    LET c == [t |-> "GiveCreaturesToPlayer", pid |-> pid, cids |-> cids]
        r == give_creatures_to_player(App, c.pid, c.cids)
    IN /\ Alive
       /\ budget.meta > 0
       /\ current_game' = r.app.current_game
       /\ snapshots' = r.app.snapshots
       /\ players' = r.app.players
       /\ cmd' = c
       /\ result' = r.result
       /\ hist' = hist_after(hist, App, r.app)
       /\ budget' = spent(budget, "meta", r.result)
       /\ UNCHANGED <<creature_vars, grid_vars, indexed_vars, actor_vars, auth_vars, capability_vars>>

RemoveCreaturesFromPlayer ==
  \E pid \in PlayerIDs :
    LET c == [t |-> "RemoveCreaturesFromPlayer", pid |-> pid, cids |-> <<"cleric">>]
        r == remove_creatures_from_player(App, c.pid, c.cids)
    IN /\ Alive
       /\ budget.meta > 0
       /\ current_game' = r.app.current_game
       /\ snapshots' = r.app.snapshots
       /\ players' = r.app.players
       /\ cmd' = c
       /\ result' = r.result
       /\ hist' = hist_after(hist, App, r.app)
       /\ budget' = spent(budget, "meta", r.result)
       /\ UNCHANGED <<creature_vars, grid_vars, indexed_vars, actor_vars, auth_vars, capability_vars>>

SetPlayerScene ==
  \E pid \in PlayerIDs :
    LET c == [t |-> "SetPlayerScene", pid |-> pid, scene |-> t_scene_id]
        r == set_player_scene(App, c.pid, c.scene)
    IN /\ Alive
       /\ budget.meta > 0
       /\ current_game' = r.app.current_game
       /\ snapshots' = r.app.snapshots
       /\ players' = r.app.players
       /\ cmd' = c
       /\ result' = r.result
       /\ hist' = hist_after(hist, App, r.app)
       /\ budget' = spent(budget, "meta", r.result)
       /\ UNCHANGED <<creature_vars, grid_vars, indexed_vars, actor_vars, auth_vars, capability_vars>>

\* the snapshots a Rollback is tried on: the first two and the last two
RollbackSnapshots ==
  {si \in {0, 1, Len(snapshots) - 2, Len(snapshots) - 1} : 0 <= si /\ si < Len(snapshots)}

\* the (snapshot_idx, log_idx) tried: a segment's start, its second log, its
\* last log, one and two past it, and a snapshot that does not exist
RollbackTargets ==
  {<<si, li>> \in RollbackSnapshots \X (0..(2 * SnapshotLogLimit)) :
      li \in {0, 2, Len(snapshots[si + 1][2]) - 1, Len(snapshots[si + 1][2]),
              Len(snapshots[si + 1][2]) + 1}}
  \cup {<<Len(snapshots), 0>>}

Rollback ==
  \E target \in RollbackTargets, overflow_checks \in BOOLEAN :
    LET c == [t |-> "Rollback", si |-> target[1], li |-> target[2]]
        r == perform_rollback(App, c.si, c.li, overflow_checks)
    IN /\ Alive
       /\ budget.rollback > 0
       /\ current_game' = r.app.current_game
       /\ snapshots' = r.app.snapshots
       /\ players' = r.app.players
       /\ cmd' = c
       /\ result' = r.result
       /\ hist' = hist_after(hist, App, r.app)
       /\ budget' = spent(budget, "rollback", r.result)
       /\ UNCHANGED <<creature_vars, grid_vars, indexed_vars, actor_vars, auth_vars, capability_vars>>

SetCreaturePos ==
  \E cid \in {"ranger", "cleric", UnknownCreature} :
    LET c == [t |-> "SetCreaturePos", scene |-> t_scene_id, cid |-> cid, pt |-> Elsewhere]
        r == perform_game_command(App, c)
    IN /\ Alive
       /\ budget.game > 0
       /\ current_game' = r.app.current_game
       /\ snapshots' = r.app.snapshots
       /\ players' = r.app.players
       /\ cmd' = c
       /\ result' = r.result
       /\ hist' = hist_after(hist, App, r.app)
       /\ budget' = spent(budget, "game", r.result)
       /\ UNCHANGED <<creature_vars, grid_vars, indexed_vars, actor_vars, auth_vars, capability_vars>>

RemoveCreature ==
  LET c == [t |-> "RemoveCreature", cid |-> "cleric"]
      r == perform_game_command(App, c)
  IN /\ Alive
     /\ budget.game > 0
     /\ current_game' = r.app.current_game
     /\ snapshots' = r.app.snapshots
     /\ players' = r.app.players
     /\ cmd' = c
     /\ result' = r.result
     /\ hist' = hist_after(hist, App, r.app)
     /\ budget' = spent(budget, "game", r.result)
     /\ UNCHANGED <<creature_vars, grid_vars, indexed_vars, actor_vars, auth_vars, capability_vars>>

StartCombat ==
  \E cids \in {<<"ranger", "rogue", "cleric">>, <<>>, <<UnknownCreature>>} :
    LET c == [t |-> "StartCombat", scene |-> t_scene_id, cids |-> cids]
        r == perform_game_command(App, c)
    IN /\ Alive
       /\ budget.game > 0
       /\ current_game' = r.app.current_game
       /\ snapshots' = r.app.snapshots
       /\ players' = r.app.players
       /\ cmd' = c
       /\ result' = r.result
       /\ hist' = hist_after(hist, App, r.app)
       /\ budget' = spent(budget, "game", r.result)
       /\ UNCHANGED <<creature_vars, grid_vars, indexed_vars, actor_vars, auth_vars, capability_vars>>

StopCombat ==
  LET c == [t |-> "StopCombat"]
      r == perform_game_command(App, c)
  IN /\ Alive
     /\ budget.game > 0
     /\ current_game' = r.app.current_game
     /\ snapshots' = r.app.snapshots
     /\ players' = r.app.players
     /\ cmd' = c
     /\ result' = r.result
     /\ hist' = hist_after(hist, App, r.app)
     /\ budget' = spent(budget, "game", r.result)
     /\ UNCHANGED <<creature_vars, grid_vars, indexed_vars, actor_vars, auth_vars, capability_vars>>

Done ==
  LET c == [t |-> "Done"]
      r == perform_game_command(App, c)
  IN /\ Alive
     /\ budget.game > 0
     /\ current_game' = r.app.current_game
     /\ snapshots' = r.app.snapshots
     /\ players' = r.app.players
     /\ cmd' = c
     /\ result' = r.result
     /\ hist' = hist_after(hist, App, r.app)
     /\ budget' = spent(budget, "game", r.result)
     /\ UNCHANGED <<creature_vars, grid_vars, indexed_vars, actor_vars, auth_vars, capability_vars>>

Next ==
  \/ RegisterPlayer
  \/ UnregisterPlayer
  \/ GiveCreaturesToPlayer
  \/ RemoveCreaturesFromPlayer
  \/ SetPlayerScene
  \/ Rollback
  \/ SetCreaturePos
  \/ RemoveCreature
  \/ StartCombat
  \/ StopCombat
  \/ Done

Spec == Init /\ [][Next]_vars

\* the log operations alone, explored deeper: the player index is left as it is
DeepGameCmds == 3

DeepRollbacks == 3

InitLog == Fresh([game |-> DeepGameCmds, rollback |-> DeepRollbacks, meta |-> 0])

NextLog ==
  \/ Rollback
  \/ SetCreaturePos
  \/ RemoveCreature
  \/ StartCombat
  \/ StopCombat
  \/ Done

SpecLog == InitLog /\ [][NextLog]_vars

(***************************************************************************)
(* A long-running App: the state after StartCombat and a run of Done       *)
(* commands, computed with perform_unchecked itself, from where the        *)
(* exploration goes on.                                                    *)
(***************************************************************************)
\* commands explored from the long-running App
GrownGameCmds == 1

GrownRollbacks == 1

\* the App and its history after one more command (s is bound by a set so
\* that it is evaluated once)
after_command(st, c) ==
  CHOOSE next \in {[app |-> r.app, hist |-> hist_after(s.hist, s.app, r.app)] :
                     r \in {perform_unchecked(s.app, c, FALSE) : s \in {st}}, s \in {st}} : TRUE

RECURSIVE after_dones(_, _)
\* the App and its history after n more Done commands (the run is halved to
\* keep the evaluation shallow)
after_dones(st, n) ==
  IF n = 0 THEN st
  ELSE IF n = 1 THEN after_command(st, [t |-> "Done"])
  ELSE CHOOSE next \in {after_dones(half, n - (n \div 2)) :
                          half \in {after_dones(st, n \div 2)}} : TRUE

\* StartCombat, then Done until the deque holds n snapshots (n >= 2)
grown(n) ==
  after_dones(after_command([app |-> AppNew(t_game), hist |-> << (0 :> t_game) >>],
                            [t |-> "StartCombat", scene |-> t_scene_id,
                             cids |-> <<"ranger", "rogue", "cleric">>]),
              n - 1)

InitGrown ==
  LET st == grown(SnapshotCapacity)
  IN /\ current_game = st.app.current_game
     /\ snapshots = st.app.snapshots
     /\ players = st.app.players
     /\ cmd = [t |-> "Done"]
     /\ result = Ok(st.app.current_game, Back(st.app.snapshots)[2])
     /\ hist = st.hist
     /\ budget = [game |-> GrownGameCmds, rollback |-> GrownRollbacks, meta |-> 0]
     /\ CreatureIdle
     /\ GridIdle
     /\ IndexedIdle
     /\ ActorIdle
     /\ AuthIdle
     /\ CapabilityIdle

SpecGrown == InitGrown /\ [][NextLog]_vars

(***************************************************************************)
(* The creature alone: ticks, effects and logs on one creature.            *)
(***************************************************************************)
\* ticks explored on the creature
MaxTicks == 3
\* effects and single logs applied to the creature between its ticks
MaxChanges == 1
\* ConditionIDs there are: 0 .. MaxConditionIDs - 1
MaxConditionIDs == 4
\* the dice totals of the effects: small ones, and one beyond u8
SmallDice == 1

BigDice == 6

HugeDice == 260

ConditionIDs == 0..(MaxConditionIDs - 1)

\* every iteration order of a HashMap keyed by ConditionID
HashOrders ==
  {o \in [1..MaxConditionIDs -> ConditionIDs] :
     \A i, j \in 1..MaxConditionIDs : i # j => o[i] # o[j]}

\* the condition maps the tests of creature.rs give the rogue, and one with
\* two recurring effects
StoredConditions ==
  { <<>>,
    (0 :> AppliedCondition(Dead, Rounds(0)))
      @@ (1 :> AppliedCondition(Incapacitated, Rounds(5)))
      @@ (2 :> AppliedCondition(Incapacitated, Interminate)),
    (0 :> AppliedCondition(RecurringEffect(EffDamage(SmallDice)), Rounds(2))),
    (0 :> AppliedCondition(Incapacitated, Rounds(1))),
    (0 :> AppliedCondition(RecurringEffect(EffDamage(BigDice)), Rounds(1)))
      @@ (1 :> AppliedCondition(RecurringEffect(EffHeal(BigDice)), Interminate)) }

\* Class.conditions of the classes tried
ClassConditions ==
  { <<>>,
    <<RecurringEffect(EffGenerateEnergy(SmallDice))>>,
    <<RecurringEffect(EffApplyCondition(Rounds(1), Incapacitated))>> }

\* volume conditions tried: none, or one recurring damage that has run out
\* and one that has not
VolumeConditions ==
  { <<>>,
    <<AppliedCondition(RecurringEffect(EffDamage(BigDice)), Rounds(0)),
      AppliedCondition(RecurringEffect(EffDamage(SmallDice)), Rounds(1))>> }

\* the effects tried by apply_effect
Effects ==
  { EffDamage(SmallDice), EffDamage(HugeDice), EffHeal(BigDice), EffHeal(HugeDice),
    EffGenerateEnergy(BigDice),
    MultiEffect(<<EffDamage(BigDice), EffDamage(BigDice)>>),
    MultiEffect(<<EffDamage(BigDice), EffHeal(SmallDice)>>),
    EffApplyCondition(Rounds(2), RecurringEffect(EffDamage(SmallDice))),
    EffApplyCondition(Rounds(0), Incapacitated) }

\* the logs tried by apply_log (tick alone emits the two duration logs)
Logs(fresh) ==
  { LogDamage(BigDice), LogDamage(U8Max), LogHeal(U8Max), LogGenerateEnergy(U8Max),
    LogReduceEnergy(BigDice), LogReduceEnergy(U8Max),
    LogApplyCondition(fresh, Rounds(1), Dead) }

RogueNow == DynamicCreature(rogue, rogue_class, rogue_volumes)

\* the ids of the ApplyCondition logs
applied_ids(logs) == {logs[i].id : i \in {j \in 1..Len(logs) : logs[j].l = "ApplyCondition"}}

\* ConditionID::gen after these logs: past every id handed out
gen_after(fresh, logs) ==
  IF applied_ids(logs) = {} THEN fresh
  ELSE LET top == CHOOSE i \in applied_ids(logs) : \A j \in applied_ids(logs) : j <= i
       IN IF top >= fresh THEN top + 1 ELSE fresh

\* the history of the stored conditions after an operation: a condition seen
\* for the first time is entered with the duration it has; `ticked` tells
\* whether the operation was a tick, `fired_ids` the stored conditions whose
\* effect it applied
age_after(a, after, ticked, fired_ids) ==
  [id \in DOMAIN a \cup DOMAIN after.conditions |->
     IF id \in DOMAIN a
     THEN [a[id] EXCEPT !.ticks = IF ticked THEN @ + 1 ELSE @,
                        !.fired = IF id \in fired_ids THEN @ + 1 ELSE @]
     ELSE [condition |-> after.conditions[id].condition,
           remaining |-> after.conditions[id].remaining,
           ticks |-> 0, fired |-> 0]]

\* no App command and no grid query is explored
AppIdle ==
  /\ current_game = t_game
  /\ snapshots = AppNew(t_game).snapshots
  /\ players = AppNew(t_game).players
  /\ cmd = [t |-> "None"]
  /\ result = NoResult
  /\ hist = << (0 :> t_game) >>
  /\ budget = [game |-> 0, rollback |-> 0, meta |-> 0]

InitCreature ==
  /\ AppIdle
  /\ GridIdle
  /\ IndexedIdle
  /\ ActorIdle
  /\ AuthIdle
  /\ CapabilityIdle
  /\ \E stored \in StoredConditions :
       /\ rogue = [t_creature EXCEPT !.conditions = stored]
       /\ next_condition_id = Cardinality(DOMAIN stored)
       /\ age = age_after(<<>>, [conditions |-> stored], FALSE, {})
  /\ rogue_class \in ClassConditions
  /\ rogue_volumes \in VolumeConditions
  /\ op = [t |-> "None"]
  /\ left = [tick |-> MaxTicks, change |-> MaxChanges]

\* DynamicCreature::tick on the creature, the HashMap iterating in any order
Tick ==
  \E hash_order \in HashOrders :
    LET r == tick(RogueNow, hash_order, next_condition_id)
        stored == iteration(DOMAIN rogue.conditions, hash_order)
        fired_ids == {stored[r.fired[i]] :
                        i \in {j \in 1..Len(r.fired) : r.fired[j] <= Len(stored)}}
    IN /\ left.tick > 0
       /\ r.changes.kind = "Ok"
       /\ gen_after(next_condition_id, r.changes.logs) <= MaxConditionIDs
       /\ rogue' = r.changes.creature
       /\ next_condition_id' = gen_after(next_condition_id, r.changes.logs)
       /\ op' = [t |-> "tick", before |-> rogue, logs |-> r.changes.logs,
                 fired |-> r.fired, view |-> conditions(RogueNow, hash_order)]
       /\ age' = age_after(age, r.changes.creature, TRUE, fired_ids)
       /\ left' = [left EXCEPT !.tick = @ - 1]
       /\ UNCHANGED <<rogue_class, rogue_volumes, app_vars, grid_vars, indexed_vars, actor_vars, auth_vars, capability_vars>>

\* DynamicCreature::apply_effect on the creature
ApplyEffect ==
  \E effect \in Effects :
    LET r == apply_effect(RogueNow, effect, next_condition_id)
    IN /\ left.change > 0
       /\ r.kind = "Ok"
       /\ gen_after(next_condition_id, r.logs) <= MaxConditionIDs
       /\ rogue' = r.creature
       /\ next_condition_id' = gen_after(next_condition_id, r.logs)
       /\ op' = [t |-> "apply_effect", before |-> rogue, effect |-> effect, logs |-> r.logs]
       /\ age' = age_after(age, r.creature, FALSE, {})
       /\ left' = [left EXCEPT !.change = @ - 1]
       /\ UNCHANGED <<rogue_class, rogue_volumes, app_vars, grid_vars, indexed_vars, actor_vars, auth_vars, capability_vars>>

\* Creature::apply_log on the creature; a log that fails leaves it as it was
ApplyLog ==
  \E log \in Logs(next_condition_id) :
    LET r == creature_apply_log(rogue, log)
        after == IF r.kind = "Ok" THEN r.creature ELSE rogue
    IN /\ left.change > 0
       /\ gen_after(next_condition_id, <<log>>) <= MaxConditionIDs
       /\ rogue' = after
       /\ next_condition_id' = IF r.kind = "Ok" THEN gen_after(next_condition_id, <<log>>)
                               ELSE next_condition_id
       /\ op' = [t |-> "apply_log", before |-> rogue, log |-> log, logs |-> <<log>>,
                 kind |-> r.kind]
       /\ age' = age_after(age, after, FALSE, {})
       /\ left' = [left EXCEPT !.change = @ - 1]
       /\ UNCHANGED <<rogue_class, rogue_volumes, app_vars, grid_vars, indexed_vars, actor_vars, auth_vars, capability_vars>>

NextCreature ==
  \/ Tick
  \/ ApplyEffect
  \/ ApplyLog

SpecCreature == InitCreature /\ [][NextCreature]_vars

(***************************************************************************)
(* The grid explored: every terrain inside a window around the origin, and *)
(* the neighbours of a point of it.                                        *)
(***************************************************************************)
\* the longest side of the volumes tried
MaxExtent == 2

\* the points that may be open: the neighbours of the origin, and what
\* a volume standing on a neighbour covers
Window == {<<x, y, 0>> : x \in (-1)..MaxExtent, y \in (-1)..1}

TileSystems == {"Realistic", "DnD"}

Volumes == {AABB(x, 1, 1) : x \in 1..MaxExtent} \cup {Sphere}

QueryPoints == {Origin}

\* no creature operation is explored
InitGrid ==
  /\ AppIdle
  /\ CreatureIdle
  /\ scene_terrain \in SUBSET Window
  /\ grid_query = [t |-> "None"]
  /\ PathIdle
  /\ IndexedIdle
  /\ ActorIdle
  /\ AuthIdle
  /\ CapabilityIdle

\* TileSystem::point3_neighbors on the terrain
Point3Neighbors ==
  \E system \in TileSystems, volume \in Volumes, pt \in QueryPoints :
    LET r == point3_neighbors(system, scene_terrain, volume, pt)
    IN /\ grid_query' = [t |-> "point3_neighbors", system |-> system, volume |-> volume,
                         pt |-> pt, kind |-> r.kind, results |-> r.results]
       /\ UNCHANGED <<scene_terrain, search, path_query, accessible, app_vars, creature_vars, indexed_vars, actor_vars, auth_vars, capability_vars>>

NextGrid == Point3Neighbors

SpecGrid == InitGrid /\ [][NextGrid]_vars

(***************************************************************************)
(* The path searches explored: astar_multi, find_path and                  *)
(* get_all_accessible from one start on each of a few terrains.  A search is one  *)
(* step per turn of the loop of astar_multi, since BinaryHeap::pop may     *)
(* give any of the entries of the least key.                               *)
(***************************************************************************)
\* the open cells right of the origin in the strip (the test's 5 straight steps)
StripLength == 5

\* the cells the two arms of `two_arms` reach out from the origin
ArmReach == 7

\* the cells of the ledge right of its start, and its height above z = 0
LedgeLength == 2

LedgeHeight == 1

\* a strip of an open plane along the x axis
strip == {<<x, y, 0>> : x \in 0..StripLength, y \in 0..1}

\* test::box_map
box_map == {Origin}

\* test::dumbbell_map: two rooms joined by the one cell (2, 1)
dumbbell_map ==
  {<<0, 0, 0>>, <<1, 0, 0>>, <<3, 0, 0>>, <<4, 0, 0>>,
   <<0, 1, 0>>, <<1, 1, 0>>, <<2, 1, 0>>, <<3, 1, 0>>, <<4, 1, 0>>,
   <<0, 2, 0>>, <<1, 2, 0>>, <<3, 2, 0>>, <<4, 2, 0>>}

\* two corridors from the origin to (2, 2): one out along the x axis and
\* back along y = 2, one around the left with two corners to cut
two_arms ==
  {Origin}
  \cup {<<x, 0, 0>> : x \in 1..ArmReach}
  \cup {<<ArmReach, 1, 0>>, <<ArmReach, 2, 0>>, <<ArmReach, 3, 0>>}
  \cup {<<x, 2, 0>> : x \in 2..(ArmReach - 1)}
  \cup {<<0, y, 0>> : y \in (-3)..(-1)}
  \cup {<<x, -3, 0>> : x \in (-3)..(-1)}
  \cup {<<-3, y, 0>> : y \in (-2)..2}
  \cup {<<x, 2, 0>> : x \in (-2)..1}
  \cup {<<-2, -2, 0>>, <<-2, 1, 0>>}

\* a row of open cells above the ground, from (0, 0) along the x axis
ledge == {<<x, 0, LedgeHeight>> : x \in 0..LedgeLength}

\* what is asked on each terrain: the tile systems, the volumes, the
\* ceilings and the goals; the dumbbell map with (2, 2) opened is the one
\* of test::large_creature_can_fit_through_large_opening
PathScenes ==
  {[terrain |-> strip, start |-> Origin, systems |-> {"Realistic"}, volumes |-> {AABB(1, 1, 1)},
    ceilings |-> {141, 100 * StripLength - 1, 100 * StripLength},
    targets |-> {<<1, 1, 0>>, <<0, 1, 0>>, <<StripLength, 0, 0>>}],
   [terrain |-> box_map, start |-> Origin, systems |-> TileSystems, volumes |-> {AABB(1, 1, 1), AABB(2, 2, 1)},
    ceilings |-> {100, 1000},
    targets |-> {Origin, <<1, 0, 0>>}],
   [terrain |-> dumbbell_map \cup {<<2, 2, 0>>}, start |-> Origin, systems |-> TileSystems,
    volumes |-> {AABB(1, 1, 1), AABB(2, 2, 1)},
    ceilings |-> {400, 1000},
    targets |-> {<<3, 0, 0>>, <<4, 2, 0>>}],
   [terrain |-> dumbbell_map, start |-> Origin, systems |-> {"Realistic"},
    volumes |-> {AABB(1, 1, 1), AABB(2, 2, 1)},
    ceilings |-> {1000},
    targets |-> {<<3, 0, 0>>}],
   [terrain |-> two_arms, start |-> Origin, systems |-> {"DnD"}, volumes |-> {AABB(1, 1, 1)},
    ceilings |-> {1387, 2000},
    targets |-> {<<2, 2, 0>>, <<ArmReach, 3, 0>>}],
   [terrain |-> ledge, start |-> <<0, 0, LedgeHeight>>, systems |-> TileSystems,
    volumes |-> {AABB(1, 1, 1)},
    ceilings |-> {100 * LedgeLength},
    targets |-> {<<1, 0, LedgeHeight>>, <<LedgeLength, 0, LedgeHeight>>}]}

\* the scene of the terrain
scene == CHOOSE s \in PathScenes : s.terrain = scene_terrain

\* the lists of one or two of the targets
GoalLists ==
  {<<a>> : a \in scene.targets} \cup {<<a, b>> : <<a, b>> \in scene.targets \X scene.targets}

InitPath ==
  /\ AppIdle
  /\ CreatureIdle
  /\ scene_terrain \in {s.terrain : s \in PathScenes}
  /\ grid_query = [t |-> "None"]
  /\ PathIdle
  /\ IndexedIdle
  /\ ActorIdle
  /\ AuthIdle
  /\ CapabilityIdle

\* a call of astar_multi as TileSystem calls it: the neighbours of
\* point3_neighbors, the distance from the start as heuristic
AstarMulti ==
  /\ search.t = "None"
  /\ \E system \in scene.systems, volume \in scene.volumes, max_cost \in scene.ceilings,
        goals \in GoalLists :
       search' = [t |-> "astar_multi", goals |-> goals,
                  loop |-> astar_begin(system, volume, scene.start, max_cost, goals)]
  /\ path_query' = [t |-> "None"]
  /\ UNCHANGED <<scene_terrain, grid_query, accessible, app_vars, creature_vars, indexed_vars, actor_vars, auth_vars, capability_vars>>

\* TileSystem::find_path up to its search
FindPath ==
  /\ search.t = "None"
  /\ \E system \in scene.systems, volume \in scene.volumes, speed \in scene.ceilings,
        destination \in scene.targets \cup
                        (IF accessible.t = "None" THEN {} ELSE Range(accessible.points)) :
       search' = [t |-> "find_path", goals |-> <<destination>>,
                  loop |-> astar_begin(system, volume, scene.start, speed, <<destination>>)]
  /\ path_query' = [t |-> "None"]
  /\ UNCHANGED <<scene_terrain, grid_query, accessible, app_vars, creature_vars, indexed_vars, actor_vars, auth_vars, capability_vars>>

\* TileSystem::get_all_accessible up to its search
GetAllAccessible ==
  /\ search.t = "None"
  /\ \E system \in scene.systems, volume \in scene.volumes, speed \in scene.ceilings :
       LET goals == accessible_goals(scene.start, scene_terrain, speed)
       IN search' = [t |-> "get_all_accessible", goals |-> goals,
                     loop |-> astar_begin(system, volume, scene.start, speed, goals)]
  /\ path_query' = [t |-> "None"]
  /\ UNCHANGED <<scene_terrain, grid_query, accessible, app_vars, creature_vars, indexed_vars, actor_vars, auth_vars, capability_vars>>

\* one turn of the loop of astar_multi
Pop ==
  /\ search.t # "None"
  /\ ~astar_ended(search.loop)
  /\ \E popped \in poppable(search.loop.to_see) :
       search' = [search EXCEPT !.loop = astar_pop(@, scene_terrain, popped)]
  /\ UNCHANGED <<scene_terrain, grid_query, path_query, accessible, app_vars, creature_vars, indexed_vars, actor_vars, auth_vars, capability_vars>>

\* the loop has ended: astar_multi returns, and find_path and
\* get_all_accessible make their result of it
Return ==
  /\ search.t # "None"
  /\ astar_ended(search.loop)
  /\ LET results == astar_results(search.loop)
         returned == [t |-> search.t, system |-> search.loop.system,
                      volume |-> search.loop.volume, start |-> search.loop.start,
                      max_cost |-> search.loop.max_cost, goals |-> search.goals,
                      pops |-> search.loop.pops, broke |-> search.loop.broke,
                      successes |-> search.loop.successes,
                      results |-> results,
                      found |-> find_path_result(results),
                      points |-> accessible_result(results, search.loop.max_cost)]
     IN /\ path_query' = returned
        /\ accessible' = IF search.t = "get_all_accessible"
                         THEN [t |-> search.t, system |-> returned.system,
                               volume |-> returned.volume, start |-> returned.start,
                               speed |-> returned.max_cost, points |-> returned.points]
                         ELSE accessible
  /\ search' = [t |-> "None"]
  /\ UNCHANGED <<scene_terrain, grid_query, app_vars, creature_vars, indexed_vars, actor_vars, auth_vars, capability_vars>>

NextPath == AstarMulti \/ FindPath \/ GetAllAccessible \/ Pop \/ Return

SpecPath == InitPath /\ [][NextPath]_vars

(***************************************************************************)
(* The IndexedHashMap explored: from IndexedHashMap::new(), any sequence   *)
(* of insert, remove and mutate with Players as values.                    *)
(***************************************************************************)
\* the player ids that serve as keys
MaxKeys == 3

IndexedKeys == {<<"player", i>> : i \in 1..MaxKeys}

\* the values: a Player of each id, with or without a scene
IndexedValues ==
  {[NewPlayer(k) EXCEPT !.scene = sc] : k \in IndexedKeys, sc \in {"None", "scene"}}

\* the closures given to mutate: one that moves the player into the scene
\* (the key stays) and, per id, one that gives the player that id
Closures ==
  {[v \in IndexedValues |-> [v EXCEPT !.scene = "scene"]]}
  \cup {[v \in IndexedValues |-> [v EXCEPT !.player_id = k]] : k \in IndexedKeys}

InitIndexed ==
  /\ AppIdle
  /\ CreatureIdle
  /\ GridIdle
  /\ IndexedIdle
  /\ ActorIdle
  /\ AuthIdle
  /\ CapabilityIdle

\* IndexedHashMap::insert
Insert ==
  \E v \in IndexedValues :
    /\ indexed' = insert(indexed, v)
    /\ indexed_op' = [t |-> "insert", before |-> indexed, v |-> v,
                      returned |-> insert_returned(indexed, v)]
    /\ UNCHANGED <<app_vars, creature_vars, grid_vars, actor_vars, auth_vars, capability_vars>>

\* IndexedHashMap::remove
Remove ==
  \E k \in IndexedKeys :
    /\ indexed' = remove(indexed, k)
    /\ indexed_op' = [t |-> "remove", before |-> indexed, k |-> k,
                      returned |-> remove_returned(indexed, k)]
    /\ UNCHANGED <<app_vars, creature_vars, grid_vars, actor_vars, auth_vars, capability_vars>>

\* IndexedHashMap::mutate
Mutate ==
  \E k \in IndexedKeys, f \in Closures :
    /\ indexed' = mutate(indexed, k, f)
    /\ indexed_op' = [t |-> "mutate", before |-> indexed, k |-> k, f |-> f,
                      returned |-> mutate_returned(indexed, k)]
    /\ UNCHANGED <<app_vars, creature_vars, grid_vars, actor_vars, auth_vars, capability_vars>>

NextIndexed == Insert \/ Remove \/ Mutate

SpecIndexed == InitIndexed /\ [][NextIndexed]_vars

(***************************************************************************)
(* The services (ptrpi/src/actor.rs, rpi/src/actor.rs): clients poll a     *)
(* game and perform commands on it, each call a task that other tasks      *)
(* interleave with wherever it awaits.  The storage behind the services    *)
(* is not among the sources: it keeps, per game, the logs appended by      *)
(* apply_game_logs, and load_game gives the game of those logs and their   *)
(* number as index.                                                        *)
(***************************************************************************)
\* the clients that poll
MaxPollers == 2

\* the poll_game calls of one client
MaxPolls == 1

\* the clients that perform a command each
MaxCommanders == 2

\* the games
MaxGames == 2

Pollers == 1..MaxPollers

Commanders == 1..MaxCommanders

GameIDs == 1..MaxGames

Services == {"ptrpi::GameService", "rpi::GMService", "rpi::PlayerService"}

\* Storage::load_game: the index of the game loaded, the number of its logs
storage_load_game(logs, game_id) == Len(logs[game_id])

\* Storage::apply_game_logs: the logs of one command appended
storage_apply_game_logs(logs, game_id, changed_game) ==
  [logs EXCEPT ![game_id] = Append(@, changed_game)]

\* a register_waiter that keeps the first sender of a game too
register_waiter_first_too(w, game_id, sender) ==
  [waiters |-> [g \in DOMAIN w \cup {game_id} |->
                  IF g = game_id
                  THEN (IF g \in DOMAIN w THEN Append(w[g], sender) ELSE <<sender>>)
                  ELSE w[g]],
   dropped |-> FALSE]

\* PingService::register_waiter: entry(game_id).and_modify(push).or_insert(vec![]);
\* without an entry the sender is in neither vec and is dropped
register_waiter(w, game_id, sender) ==
  IF game_id \in DOMAIN w
  THEN [waiters |-> [w EXCEPT ![game_id] = Append(@, sender)], dropped |-> FALSE]
  ELSE [waiters |-> [g \in DOMAIN w \cup {game_id} |-> IF g = game_id THEN <<>> ELSE w[g]],
        dropped |-> TRUE]

\* a ping that sends without draining
ping_and_keep(w, game_id) ==
  IF game_id \in DOMAIN w
  THEN [waiters |-> w, sent |-> w[game_id]]
  ELSE [waiters |-> w, sent |-> <<>>]

\* PingService::ping: the senders of the game drained, a send on each
ping(w, game_id) ==
  IF game_id \in DOMAIN w
  THEN [waiters |-> [w EXCEPT ![game_id] = <<>>], sent |-> w[game_id]]
  ELSE [waiters |-> w, sent |-> <<>>]

\* the test that opens poll_game: GameService compares its own index with
\* the caller's; poll_game of rpi compares its argument with itself, the
\* argument being the service's index in GMService and the caller's in
\* PlayerService
already_changed(kind, self_game_index, game_index) ==
  IF kind = "ptrpi::GameService" THEN self_game_index # game_index
  ELSE LET argument == IF kind = "rpi::GMService" THEN self_game_index ELSE game_index
       IN argument # argument

\* a timer that never elapses
never_elapses(chan) == FALSE

\* timeout(Duration::from_secs(30), receiver): the 30 seconds may elapse
\* while the receiver is not ready
elapses(chan) == chan = "open"

\* oneshot::Receiver: ready once a value was sent or the sender was dropped
receiver_ready(chan) == chan \in {"sent", "canceled"}

\* a client that has not called poll_game
NoPoll == [pc |-> "idle", game_id |-> 0, current |-> FALSE,
           call |-> 0, chan |-> "none", signals |-> 0, woken |-> "none"]

\* a client that has not asked for a service
NoCommand == [pc |-> "idle", game_id |-> 0, self_game_index |-> 0, outcome |-> "none"]

InitActor ==
  /\ AppIdle
  /\ CreatureIdle
  /\ GridIdle
  /\ IndexedIdle
  /\ AuthIdle
  /\ CapabilityIdle
  /\ service \in Services
  /\ \E polled \in SUBSET GameIDs : waiters = [g \in polled |-> <<>>]
  /\ pollers = [p \in Pollers |-> NoPoll]
  /\ commanders = [c \in Commanders |-> NoCommand]
  /\ persisted = [g \in GameIDs |-> <<>>]

\* a client asks for a service on a game (AuthenticatedService::gm or
\* ::player loads the game) and calls poll_game: up to register_waiter.
\* Of the two indexes the call keeps whether the caller's is the service's.
PollGame(p) ==
  /\ pollers[p].pc \in {"idle", "returned"}
  /\ pollers[p].call < MaxPolls
  /\ \E game_id \in GameIDs, game_index \in 0..MaxCommanders :
       LET self_game_index == storage_load_game(persisted, game_id)
           called == [NoPoll EXCEPT !.game_id = game_id,
                                    !.current = (game_index = self_game_index),
                                    !.call = pollers[p].call + 1]
       IN pollers' = [pollers EXCEPT ![p] =
                        IF already_changed(service, self_game_index, game_index)
                        THEN [called EXCEPT !.pc = "returned", !.woken = "changed"]
                        ELSE [called EXCEPT !.pc = "registering", !.chan = "open"]]
  /\ UNCHANGED <<service, waiters, commanders, persisted>>
  /\ UNCHANGED <<app_vars, creature_vars, grid_vars, indexed_vars, auth_vars, capability_vars>>

\* poll_game: register_waiter has the lock
RegisterWaiter(p) ==
  /\ pollers[p].pc = "registering"
  /\ LET registered == register_waiter(waiters, pollers[p].game_id, <<p, pollers[p].call>>)
     IN /\ waiters' = registered.waiters
        /\ pollers' = [pollers EXCEPT ![p].pc = "waiting",
                                      ![p].chan = IF registered.dropped THEN "canceled" ELSE @]
  /\ UNCHANGED <<service, commanders, persisted>>
  /\ UNCHANGED <<app_vars, creature_vars, grid_vars, indexed_vars, auth_vars, capability_vars>>

\* where poll_game goes on after the timeout(..).await: GameService loads
\* the game, poll_game of rpi returns
after_wait == IF service = "ptrpi::GameService" THEN "loading" ELSE "returned"

\* poll_game: the receiver is ready, Ok(_); the receiver is dropped
Wake(p) ==
  /\ pollers[p].pc = "waiting"
  /\ receiver_ready(pollers[p].chan)
  /\ pollers' = [pollers EXCEPT ![p].pc = after_wait,
                                ![p].woken = IF pollers[p].chan = "sent" THEN "ping"
                                             ELSE "canceled",
                                ![p].chan = "closed"]
  /\ UNCHANGED <<service, waiters, commanders, persisted>>
  /\ UNCHANGED <<app_vars, creature_vars, grid_vars, indexed_vars, auth_vars, capability_vars>>

\* poll_game: the 30 seconds have elapsed, Err(_); the receiver is dropped
Timeout(p) ==
  /\ pollers[p].pc = "waiting"
  /\ elapses(pollers[p].chan)
  /\ pollers' = [pollers EXCEPT ![p].pc = after_wait, ![p].woken = "timeout",
                                ![p].chan = "closed"]
  /\ UNCHANGED <<service, waiters, commanders, persisted>>
  /\ UNCHANGED <<app_vars, creature_vars, grid_vars, indexed_vars, auth_vars, capability_vars>>

\* GameService::poll_game: load_game and return
LoadGame(p) ==
  /\ pollers[p].pc = "loading"
  /\ pollers' = [pollers EXCEPT ![p].pc = "returned"]
  /\ UNCHANGED <<service, waiters, commanders, persisted>>
  /\ UNCHANGED <<app_vars, creature_vars, grid_vars, indexed_vars, auth_vars, capability_vars>>

\* AuthenticatedService::gm / ::player: a service with the game as loaded
Gm(c) ==
  /\ commanders[c].pc = "idle"
  /\ \E game_id \in GameIDs :
       commanders' = [commanders EXCEPT ![c] =
                        [NoCommand EXCEPT !.pc = "ready", !.game_id = game_id,
                                          !.self_game_index = storage_load_game(persisted, game_id)]]
  /\ UNCHANGED <<service, waiters, pollers, persisted>>
  /\ UNCHANGED <<app_vars, creature_vars, grid_vars, indexed_vars, auth_vars, capability_vars>>

\* a perform_command that appends logs whatever the command returned
PerformAndPersist(c) ==
  /\ commanders[c].pc = "ready"
  /\ \E outcome \in {"Ok", "Err"} :
       commanders' = [commanders EXCEPT ![c] =
                        IF outcome = "Err"
                        THEN [NoCommand EXCEPT !.pc = "done", !.outcome = "Err"]
                        ELSE [@ EXCEPT !.pc = "applied"]]
  /\ persisted' = storage_apply_game_logs(persisted, commanders[c].game_id,
                                  [by |-> c, on |-> commanders[c].self_game_index])
  /\ UNCHANGED <<service, waiters, pollers>>
  /\ UNCHANGED <<app_vars, creature_vars, grid_vars, indexed_vars, auth_vars, capability_vars>>

\* perform_command up to the ping: the command on self.game, and if it
\* succeeds apply_game_logs
PerformCommand(c) ==
  /\ commanders[c].pc = "ready"
  /\ \/ /\ commanders' = [commanders EXCEPT ![c] = [NoCommand EXCEPT !.pc = "done",
                                                                     !.outcome = "Err"]]
        /\ UNCHANGED persisted
     \/ /\ commanders' = [commanders EXCEPT ![c].pc = "applied"]
        /\ persisted' = storage_apply_game_logs(persisted, commanders[c].game_id,
                                        [by |-> c, on |-> commanders[c].self_game_index])
  /\ UNCHANGED <<service, waiters, pollers>>
  /\ UNCHANGED <<app_vars, creature_vars, grid_vars, indexed_vars, auth_vars, capability_vars>>

\* the values a ping sends to the channel of the call, as many as it holds
\* senders of it
sends(sent, sender) == Cardinality({i \in 1..Len(sent) : sent[i] = sender})

\* perform_command: ping has the lock, and perform_command returns
Ping(c) ==
  /\ commanders[c].pc = "applied"
  /\ LET pinged == ping(waiters, commanders[c].game_id)
     IN /\ waiters' = pinged.waiters
        /\ pollers' = [p \in Pollers |->
                         LET n == sends(pinged.sent, <<p, pollers[p].call>>)
                         IN IF n > 0 /\ pollers[p].chan \in {"open", "sent"}
                            THEN [pollers[p] EXCEPT !.chan = "sent", !.signals = @ + n]
                            ELSE pollers[p]]
  /\ commanders' = [commanders EXCEPT ![c] = [NoCommand EXCEPT !.pc = "done", !.outcome = "Ok"]]
  /\ UNCHANGED <<service, persisted>>
  /\ UNCHANGED <<app_vars, creature_vars, grid_vars, indexed_vars, auth_vars, capability_vars>>

NextActor ==
  \/ \E p \in Pollers : PollGame(p) \/ RegisterWaiter(p) \/ Wake(p) \/ Timeout(p) \/ LoadGame(p)
  \/ \E c \in Commanders : Gm(c) \/ PerformCommand(c) \/ Ping(c)

SpecActor == InitActor /\ [][NextActor]_vars

\* the runtime goes on with every task that can go on: a registration gets
\* the lock, a ready receiver or an elapsed timer resumes its poll_game,
\* the storage answers
FairPolls ==
  \A p \in Pollers :
    /\ WF_vars(RegisterWaiter(p))
    /\ WF_vars(Wake(p))
    /\ WF_vars(Timeout(p))
    /\ WF_vars(LoadGame(p))

SpecActorFair == SpecActor /\ FairPolls

(***************************************************************************)
(* AuthenticatedService (rpi/src/actor.rs, ptrpi/src/actor.rs): the layer  *)
(* that authorizes a user for a game and hands out the services.  The      *)
(* storage behind it is not among the sources: it keeps the GameProfiles   *)
(* (user, game, role, profile name) and the invitations; create_game       *)
(* stores the creator's GM profile, accept_invitation stores a Player      *)
(* profile for a known invitation, load_game fails for a game that was     *)
(* never created.  The Game of rpi registers its players by a GM command   *)
(* whose log is persisted.                                                 *)
(***************************************************************************)
\* the users
MaxUsers == 2

\* the invitations of one game
MaxInvitations == 1

\* the profile names a user may choose from
MaxProfileNames == 2

\* the Player profiles the storage comes to hold
MaxProfiles == 2

UserIDs == 1..MaxUsers

InvitationIDs == 1..MaxInvitations

ProfileNames == {<<"player", i>> : i \in 1..MaxProfileNames}

GameProfile(user_id, game_id, role, profile_name) ==
  [user_id |-> user_id, game_id |-> game_id, role |-> role, profile_name |-> profile_name]

\* Storage::list_user_games: the profiles of one user
list_user_games(profiles, user_id) == {profile \in profiles : profile.user_id = user_id}

\* Storage::create_game: the next game id, and its creator as GM
create_game(profiles, logs, user_id) ==
  LET game_id == Cardinality(DOMAIN logs) + 1
  IN [game_id |-> game_id,
      user_games |-> profiles \cup {GameProfile(user_id, game_id, "GM", <<"GM", user_id>>)},
      persisted |-> [g \in DOMAIN logs \cup {game_id} |-> IF g = game_id THEN <<>> ELSE logs[g]]]

\* load_game: the game of the stored logs, or an error for an unknown game
load_game(logs, game_id) ==
  IF game_id \in DOMAIN logs
  THEN [outcome |-> "Ok", loaded |-> TRUE]
  ELSE [outcome |-> "Err", loaded |-> FALSE]

\* Game.players of the game that load_game gives
game_players(logs, game_id) ==
  {logs[game_id][i].pid : i \in {j \in 1..Len(logs[game_id]) : logs[game_id][j].t = "RegisterPlayer"}}

\* Game::perform_gm_command(RegisterPlayer(pid)): PlayerAlreadyExists, or the
\* changed game with its log
perform_gm_command_RegisterPlayer(game_players_now, pid) ==
  IF pid \in game_players_now
  THEN [kind |-> "Err", err |-> <<"PlayerAlreadyExists", pid>>, logs |-> <<>>]
  ELSE [kind |-> "Ok", err |-> <<>>, logs |-> <<[t |-> "RegisterPlayer", pid |-> pid]>>]

\* rpi AuthenticatedService::find_game: the loop returns at the first profile
\* of the user with the GM role; neither game_id nor role is compared
find_game(profiles, logs, user_id, game_id, role) ==
  IF \E game \in list_user_games(profiles, user_id) :
       game.user_id = user_id /\ game.role = "GM"
  THEN load_game(logs, game_id)
  ELSE [outcome |-> "Err", loaded |-> FALSE]

\* rpi AuthenticatedService::gm
rpi_gm(profiles, logs, user_id, game_id) == find_game(profiles, logs, user_id, game_id, "GM")

\* rpi AuthenticatedService::player: find_game, then the first Player profile
\* of the user for the game
rpi_player(profiles, logs, user_id, game_id) ==
  LET found == find_game(profiles, logs, user_id, game_id, "Player")
  IN IF found.outcome = "Err" THEN found
     ELSE IF \E profile \in list_user_games(profiles, user_id) :
               profile.game_id = game_id /\ profile.role = "Player"
     THEN found
     ELSE [outcome |-> "Err", loaded |-> found.loaded]

\* ptrpi Storage::list_user_games: UserGames { gm_games, player_games }
gm_games(profiles, user_id) ==
  {profile.game_id : profile \in {q \in list_user_games(profiles, user_id) : q.role = "GM"}}

player_games(profiles, user_id) ==
  {profile.game_id : profile \in {q \in list_user_games(profiles, user_id) : q.role = "Player"}}

\* ptrpi AuthenticatedService::gm
ptrpi_gm(profiles, logs, user_id, game_id) ==
  IF game_id \notin gm_games(profiles, user_id)
  THEN [outcome |-> "Err", loaded |-> FALSE]
  ELSE load_game(logs, game_id)

\* ptrpi AuthenticatedService::player
ptrpi_player(profiles, logs, user_id, game_id) ==
  IF game_id \notin player_games(profiles, user_id)
  THEN [outcome |-> "Err", loaded |-> FALSE]
  ELSE load_game(logs, game_id)

\* a call of gm or player and what it returned
AuthCall(t, user_id, game_id, returned) ==
  [t |-> t, user_id |-> user_id, game_id |-> game_id,
   outcome |-> returned.outcome, loaded |-> returned.loaded]

InitAuth ==
  /\ AppIdle
  /\ CreatureIdle
  /\ GridIdle
  /\ IndexedIdle
  /\ ActorIdle
  /\ CapabilityIdle
  /\ user_games = {}
  /\ invited = {}
  /\ auth = [t |-> "None"]

\* AuthenticatedService::new_game
NewGame(user_id) ==
  /\ Cardinality(DOMAIN persisted) < MaxGames
  /\ LET created == create_game(user_games, persisted, user_id)
     IN /\ user_games' = created.user_games
        /\ persisted' = created.persisted
        /\ auth' = [t |-> "new_game", user_id |-> user_id, game_id |-> created.game_id]
  /\ UNCHANGED <<invited, service, waiters, pollers, commanders>>
  /\ UNCHANGED <<app_vars, creature_vars, grid_vars, indexed_vars, capability_vars>>

\* GMService::invite / PlayerService::invite of a service on the game
Invite(game_id) ==
  /\ game_id \in DOMAIN persisted
  /\ LET id == Cardinality({i \in invited : i[1] = game_id}) + 1
     IN /\ id <= MaxInvitations
        /\ invited' = invited \cup {<<game_id, id>>}
        /\ auth' = [t |-> "invite", game_id |-> game_id, invitation_id |-> id]
  /\ UNCHANGED <<user_games, actor_vars>>
  /\ UNCHANGED <<app_vars, creature_vars, grid_vars, indexed_vars, capability_vars>>

RpiGm(user_id, game_id) ==
  /\ auth' = AuthCall("rpi::gm", user_id, game_id, rpi_gm(user_games, persisted, user_id, game_id))
  /\ UNCHANGED <<user_games, invited, actor_vars>>
  /\ UNCHANGED <<app_vars, creature_vars, grid_vars, indexed_vars, capability_vars>>

RpiPlayer(user_id, game_id) ==
  /\ auth' = AuthCall("rpi::player", user_id, game_id,
                      rpi_player(user_games, persisted, user_id, game_id))
  /\ UNCHANGED <<user_games, invited, actor_vars>>
  /\ UNCHANGED <<app_vars, creature_vars, grid_vars, indexed_vars, capability_vars>>

PtrpiGm(user_id, game_id) ==
  /\ auth' = AuthCall("ptrpi::gm", user_id, game_id,
                      ptrpi_gm(user_games, persisted, user_id, game_id))
  /\ UNCHANGED <<user_games, invited, actor_vars>>
  /\ UNCHANGED <<app_vars, creature_vars, grid_vars, indexed_vars, capability_vars>>

PtrpiPlayer(user_id, game_id) ==
  /\ auth' = AuthCall("ptrpi::player", user_id, game_id,
                      ptrpi_player(user_games, persisted, user_id, game_id))
  /\ UNCHANGED <<user_games, invited, actor_vars>>
  /\ UNCHANGED <<app_vars, creature_vars, grid_vars, indexed_vars, capability_vars>>

\* rpi AuthenticatedService::accept_invitation: storage.accept_invitation,
\* load_game, RegisterPlayer on the loaded game, apply_game_logs, ping; each
\* `?` returns the error of its step.  Whether the storage keeps an accepted
\* invitation is not known, and the storage may fail to append.
AcceptInvitation(user_id, game_id, invitation_id, profile_name) ==
  LET profile == GameProfile(user_id, game_id, "Player", profile_name)
      call == [t |-> "accept_invitation", profile |-> profile,
               invitation_id |-> invitation_id,
               was_stored |-> profile \in user_games,
               outcome |-> "Err", failed |-> "none", pinged |-> FALSE]
  IN /\ Cardinality({p \in user_games : p.role = "Player"}) < MaxProfiles
     /\ IF <<game_id, invitation_id>> \notin invited
        THEN /\ auth' = [call EXCEPT !.failed = "storage.accept_invitation"]
             /\ UNCHANGED <<user_games, invited, persisted, waiters>>
        ELSE /\ user_games' = user_games \cup {profile}
             /\ invited' \in {invited, invited \ {<<game_id, invitation_id>>}}
             /\ LET changed_game == perform_gm_command_RegisterPlayer(
                                      game_players(persisted, game_id), profile_name)
                IN IF changed_game.kind = "Err"
                   THEN /\ auth' = [call EXCEPT !.failed = "perform_gm_command"]
                        /\ UNCHANGED <<persisted, waiters>>
                   ELSE \/ /\ auth' = [call EXCEPT !.failed = "storage.apply_game_logs"]
                           /\ UNCHANGED <<persisted, waiters>>
                        \/ /\ persisted' = [persisted EXCEPT
                                              ![game_id] = @ \o changed_game.logs]
                           /\ waiters' = ping(waiters, game_id).waiters
                           /\ auth' = [call EXCEPT !.outcome = "Ok", !.pinged = TRUE]
     /\ UNCHANGED <<service, pollers, commanders>>
     /\ UNCHANGED <<app_vars, creature_vars, grid_vars, indexed_vars, capability_vars>>

NextAuth ==
  \/ \E user_id \in UserIDs : NewGame(user_id)
  \/ \E game_id \in GameIDs : Invite(game_id)
  \/ \E user_id \in UserIDs, game_id \in GameIDs :
       RpiGm(user_id, game_id) \/ RpiPlayer(user_id, game_id)
       \/ PtrpiGm(user_id, game_id) \/ PtrpiPlayer(user_id, game_id)
  \/ \E user_id \in UserIDs, game_id \in GameIDs,
        invitation_id \in InvitationIDs, profile_name \in ProfileNames :
       AcceptInvitation(user_id, game_id, invitation_id, profile_name)

SpecAuth == InitAuth /\ [][NextAuth]_vars

(***************************************************************************)
(* The capability-based App (src/app.rs): App::capability gives an AppCap  *)
(* by the state of current_combat, and each AppCap offers the operations   *)
(* of its state; every operation takes &self and returns a new App.        *)
(* Combat (combat.rs) is not among the sources: a Combat here is its       *)
(* combatants and whose turn it is, Combat::new refuses an empty list, and *)
(* a Combat is Able when the creature whose turn it is can act.            *)
(***************************************************************************)
\* the creatures an App is built with
MaxAppCreatures == 2

\* the creature ids listed in one start_combat
MaxCombatants == 2

\* the entries combat_history comes to hold
MaxCombatHistory == 2

\* combat_history drops its front at this length (perform_able_op)
CombatHistoryLimit == 1000

AppCreatureIDs == {<<"cid", i>> : i \in 1..MaxAppCreatures}

\* cid("nonexistent") of the tests
nonexistent == <<"cid", 0>>

NoCombat == [some |-> FALSE]

SomeCombat(combat) == [some |-> TRUE, combat |-> combat]

\* the App of the three fields
CapApp(app_creatures, combat, history) ==
  [creatures |-> app_creatures, current_combat |-> combat, combat_history |-> history]

OkApp(app) == [kind |-> "Ok", app |-> app, err |-> <<>>]

ErrApp(e) == [kind |-> "Err", app |-> <<>>, err |-> e]

\* Combat::new: CombatMustHaveCreatures for no combatant
Combat_new(combatants) ==
  IF combatants = <<>>
  THEN [kind |-> "Err", err |-> <<"CombatMustHaveCreatures">>, combat |-> <<>>]
  ELSE [kind |-> "Ok", err |-> <<>>, combat |-> [creatures |-> combatants, cursor |-> 1]]

\* Combat::capability
combat_capability(combat) ==
  IF combat.creatures[combat.cursor].can_act THEN "Able" ELSE "Incap"

\* CombatIncap::skip: the turn passes to the next combatant
combat_skip(combat) == [combat EXCEPT !.cursor = (@ % Len(combat.creatures)) + 1]

\* CombatAble::act with an ability on a target: the outcomes a Combat can
\* get from it, the target unable to act or everyone as before
combat_act(combat) ==
  {combat} \cup {[combat EXCEPT !.creatures[i].can_act = FALSE] : i \in 1..Len(combat.creatures)}

\* App::capability
capability(app) ==
  IF app.current_combat.some
  THEN combat_capability(app.current_combat.combat)
  ELSE "NoCombat"

\* App::get_creature
get_creature(app, cid) ==
  IF cid \in DOMAIN app.creatures
  THEN [kind |-> "Ok", creature |-> app.creatures[cid], err |-> <<>>]
  ELSE [kind |-> "Err", creature |-> <<>>, err |-> <<"CreatureNotFound", cid>>]

\* a start_combat that leaves out the creatures it does not find
start_combat_of_known(app, cids) ==
  LET known(cid) == cid \in DOMAIN app.creatures
      made == Combat_new([i \in 1..Len(SelectSeq(cids, known)) |->
                            app.creatures[SelectSeq(cids, known)[i]]])
  IN IF made.kind = "Err" THEN ErrApp(made.err)
     ELSE OkApp([app EXCEPT !.current_combat = SomeCombat(made.combat)])

\* AppNoCombat::start_combat: collect::<Result<_, _>> stops at the first
\* creature that is not found; then Combat::new
start_combat(app, cids) ==
  LET missing == {i \in 1..Len(cids) : get_creature(app, cids[i]).kind = "Err"}
  IN IF missing # {}
     THEN ErrApp(get_creature(app, cids[CHOOSE i \in missing : \A j \in missing : i <= j]).err)
     ELSE LET made == Combat_new([i \in 1..Len(cids) |-> get_creature(app, cids[i]).creature])
          IN IF made.kind = "Err" THEN ErrApp(made.err)
             ELSE OkApp([app EXCEPT !.current_combat = SomeCombat(made.combat)])

\* App::stop_combat
stop_combat(app) ==
  [app EXCEPT !.combat_history = IF app.current_combat.some
                                 THEN Append(@, app.current_combat.combat) ELSE @,
              !.current_combat = NoCombat]

\* AppIncap::skip
skip(app) == [app EXCEPT !.current_combat = SomeCombat(combat_skip(app.current_combat.combat))]

\* AppAble::perform_able_op with the Combat that op returned
perform_able_op(app, g) ==
  LET popped == IF Len(app.combat_history) >= CombatHistoryLimit
                THEN Tail(app.combat_history) ELSE app.combat_history
  IN [app EXCEPT !.combat_history = Append(popped, app.current_combat.combat),
                 !.current_combat = SomeCombat(g)]

\* the App of the variables
CapAppNow == CapApp(creatures, current_combat, combat_history)

\* the lists of creature ids given to start_combat
CombatantLists ==
  UNION {[1..n -> AppCreatureIDs \cup {nonexistent}] : n \in 0..MaxCombatants}

\* an App as the tests build it: App::new(), or the struct with creatures
InitCapability ==
  /\ AppIdle
  /\ CreatureIdle
  /\ GridIdle
  /\ IndexedIdle
  /\ ActorIdle
  /\ AuthIdle
  /\ \E built \in SUBSET AppCreatureIDs :
       creatures \in [built -> [can_act : BOOLEAN]]
  /\ current_combat = NoCombat
  /\ combat_history = <<>>
  /\ cap_op = [t |-> "None"]

\* AppCap::NoCombat: start_combat(cids)
CapStartCombat(cids) ==
  /\ capability(CapAppNow) = "NoCombat"
  /\ LET returned == start_combat(CapAppNow, cids)
     IN /\ cap_op' = [t |-> "start_combat", before |-> CapAppNow, cids |-> cids,
                      returned |-> returned]
        /\ current_combat' = IF returned.kind = "Ok" THEN returned.app.current_combat
                             ELSE current_combat
  /\ UNCHANGED <<creatures, combat_history>>
  /\ UNCHANGED <<app_vars, creature_vars, grid_vars, indexed_vars, actor_vars, auth_vars>>

\* AppCap::Able / AppCap::Incap: stop_combat()
CapStopCombat ==
  /\ capability(CapAppNow) \in {"Able", "Incap"}
  /\ Len(combat_history) < MaxCombatHistory
  /\ LET newapp == stop_combat(CapAppNow)
     IN /\ current_combat' = newapp.current_combat
        /\ combat_history' = newapp.combat_history
        /\ cap_op' = [t |-> "stop_combat", before |-> CapAppNow]
  /\ UNCHANGED creatures
  /\ UNCHANGED <<app_vars, creature_vars, grid_vars, indexed_vars, actor_vars, auth_vars>>

\* AppCap::Incap: skip()
CapSkip ==
  /\ capability(CapAppNow) = "Incap"
  /\ current_combat' = skip(CapAppNow).current_combat
  /\ cap_op' = [t |-> "skip", before |-> CapAppNow]
  /\ UNCHANGED <<creatures, combat_history>>
  /\ UNCHANGED <<app_vars, creature_vars, grid_vars, indexed_vars, actor_vars, auth_vars>>

\* AppCap::Able: act(ability_id, target): an error of get_ability,
\* has_ability or CombatAble::act leaves the App; a Combat goes through
\* perform_able_op
CapAct ==
  /\ capability(CapAppNow) = "Able"
  /\ Len(combat_history) < MaxCombatHistory
  /\ \/ /\ cap_op' = [t |-> "act", before |-> CapAppNow, returned |-> "Err"]
        /\ UNCHANGED <<current_combat, combat_history>>
     \/ \E g \in combat_act(current_combat.combat) :
          LET newapp == perform_able_op(CapAppNow, g)
          IN /\ current_combat' = newapp.current_combat
             /\ combat_history' = newapp.combat_history
             /\ cap_op' = [t |-> "act", before |-> CapAppNow, returned |-> "Ok"]
  /\ UNCHANGED creatures
  /\ UNCHANGED <<app_vars, creature_vars, grid_vars, indexed_vars, actor_vars, auth_vars>>

NextCapability ==
  \/ \E cids \in CombatantLists : CapStartCombat(cids)
  \/ CapStopCombat
  \/ CapSkip
  \/ CapAct

SpecCapability == InitCapability /\ [][NextCapability]_vars


\* the last call was a Game command (the default arm)
IsGameCommand(c) == c.t \notin MetaCommands \cup {"Rollback", "None"}

RollbackLog(c) == [t |-> "Rollback", si |-> c.si, li |-> c.li]

\* all snapshots but the last are as they were
OlderSnapshotsKept ==
  \A i \in 1..(Len(snapshots) - 1) : i <= Len(snapshots') /\ snapshots'[i] = snapshots[i]

\* C1: a successful Rollback(si, li) makes current_game the Game the App had
\* when segment si came to hold li logs, whatever the earlier commands were.
C1_RollbackRestoresHistory ==
  (/\ cmd.t = "Rollback"
   /\ result.kind = "Ok"
   /\ cmd.si < Len(hist)
   /\ cmd.li \in DOMAIN hist[cmd.si + 1])
  => current_game = hist[cmd.si + 1][cmd.li]

\* C2: a successful Rollback(si, li) appends exactly the log Rollback(si, li)
\* to the last segment and returns that one log; it adds no snapshot and
\* leaves every baseline and every log recorded before as it was.
C2_RollbackAppendsOneLog ==
  [][(cmd'.t = "Rollback" /\ result'.kind = "Ok")
     => /\ Len(snapshots') = Len(snapshots)
        /\ OlderSnapshotsKept
        /\ Back(snapshots')[1] = Back(snapshots)[1]
        /\ Back(snapshots')[2] = Append(Back(snapshots)[2], RollbackLog(cmd'))
        /\ result'.logs = <<RollbackLog(cmd')>>]_vars

\* a Rollback to an earlier snapshot succeeded on a last segment that is
\* already over the limit: one more log, no new snapshot
C2_Witness ==
  /\ cmd.t = "Rollback"
  /\ result.kind = "Ok"
  /\ Len(snapshots) >= 2
  /\ cmd.si < Len(snapshots) - 1
  /\ Len(Back(snapshots)[2]) > SnapshotLogLimit + 1

\* C3: Rollback(si, li) fails with HistoryNotFound(si, li) whenever snapshot si
\* does not exist or li is not below the length of its segment (an empty
\* segment included), and then changes nothing.
C3_RollbackOutOfRangeFails ==
  [][(/\ cmd'.t = "Rollback"
      /\ \/ cmd'.si >= Len(snapshots)
         \/ cmd'.li >= Len(snapshots[cmd'.si + 1][2]))
     => /\ result' = Err(<<"HistoryNotFound", cmd'.si, cmd'.li>>)
        /\ UNCHANGED <<current_game, snapshots, players>>]_vars

\* C4: in every state current_game is what replaying the last snapshot's
\* segment (its Rollback logs included) onto its baseline gives.
C4_CurrentGameIsReplayOfLastSegment ==
  LET r == apply_game_logs(Back(snapshots)[1], Back(snapshots)[1], Back(snapshots)[2])
  IN r.kind = "Ok" /\ r.game = current_game

\* C5: replaying all logs of snapshot i onto its baseline gives the baseline
\* of snapshot i + 1.
C5_SegmentReplayGivesNextBaseline ==
  \A i \in 1..(Len(snapshots) - 1) :
    LET r == apply_game_logs(snapshots[i][1], snapshots[i][1], snapshots[i][2])
    IN r.kind = "Ok" /\ r.game = snapshots[i + 1][1]

\* C6: a command that returns an error leaves current_game, the snapshots and
\* the player index as they were.
C6_ErrorsChangeNothing ==
  [][result'.kind = "Err" => UNCHANGED <<current_game, snapshots, players>>]_vars

\* GiveCreaturesToPlayer failed on its second creature although the player
\* exists and the first creature is known
C6_Witness ==
  /\ cmd.t = "GiveCreaturesToPlayer"
  /\ result.kind = "Err"
  /\ result.err = <<"CreatureNotFound", UnknownCreature>>
  /\ cmd.pid \in DOMAIN players
  /\ cmd.cids[1] \in current_game.creatures
  /\ Len(Back(snapshots)[2]) > 0

\* C7: the player commands return no log and leave current_game and every
\* snapshot as they were.
C7_MetaCommandsTouchOnlyPlayers ==
  [][cmd'.t \in MetaCommands
     => /\ UNCHANGED <<current_game, snapshots>>
        /\ result'.logs = <<>>
        /\ result'.kind = "Ok" => result'.game = current_game]_vars

\* SetPlayerScene succeeded on an App that has logs and a second snapshot
C7_Witness ==
  /\ cmd.t = "SetPlayerScene"
  /\ result.kind = "Ok"
  /\ players[cmd.pid].scene = cmd.scene
  /\ Len(snapshots) >= 2
  /\ Len(Back(snapshots)[2]) > 0

\* C8: when the logs of a successful Game command would take the last segment
\* over 100 logs, a snapshot of the Game before the command is pushed, it
\* gets all of the command's logs, and the segments before stay as they were.
C8_OverflowRollsSnapshot ==
  [][(/\ IsGameCommand(cmd')
      /\ result'.kind = "Ok"
      /\ Len(Back(snapshots)[2]) + Len(result'.logs) > SnapshotLogLimit)
     => snapshots' = Append(snapshots, <<current_game, result'.logs>>)]_vars

\* a Game command that changed the Game has just rolled to a new snapshot
C8_Witness ==
  /\ IsGameCommand(cmd)
  /\ result.kind = "Ok"
  /\ Len(snapshots) >= 2
  /\ Back(snapshots)[2] = result.logs
  /\ Len(snapshots[Len(snapshots) - 1][2]) + Len(result.logs) > SnapshotLogLimit
  /\ Back(snapshots)[1] # current_game

\* C9, as claimed: a successful Game command on an empty last segment pushes
\* a new snapshot.
C9_EmptySegmentRolls ==
  [][(/\ IsGameCommand(cmd')
      /\ result'.kind = "Ok"
      /\ Len(Back(snapshots)[2]) = 0)
     => Len(snapshots') = Len(snapshots) + 1]_vars

\* C9, amended: a successful Game command on an empty last segment, emitting
\* at most 100 logs, pushes no snapshot; its logs become that segment.
C9_EmptySegmentIsFilled ==
  [][(/\ IsGameCommand(cmd')
      /\ result'.kind = "Ok"
      /\ Len(Back(snapshots)[2]) = 0
      /\ Len(result'.logs) <= SnapshotLogLimit)
     => /\ Len(snapshots') = Len(snapshots)
        /\ OlderSnapshotsKept
        /\ Back(snapshots') = <<Back(snapshots)[1], result'.logs>>]_vars

\* the first Game command of a fresh App went into the first snapshot
C9_Witness ==
  /\ IsGameCommand(cmd)
  /\ result.kind = "Ok"
  /\ Len(snapshots) = 1
  /\ snapshots[1] = <<t_game, result.logs>>

\* C10, as claimed: the deque never holds more than 1000 snapshots.
C10_AtMostCapacity == Len(snapshots) <= SnapshotCapacity

\* C10, amended: nothing bounds the deque; a command adds at most one
\* snapshot and no snapshot is ever dropped.
C10_SnapshotsOnlyGrow ==
  [][/\ Len(snapshots') \in {Len(snapshots), Len(snapshots) + 1}
     /\ OlderSnapshotsKept
     /\ Back(snapshots)[1] = snapshots'[Len(snapshots)][1]]_vars

\* the deque holds more snapshots than the capacity it was created with
C10_Witness ==
  /\ Len(snapshots) > SnapshotCapacity
  /\ IsGameCommand(cmd)
  /\ result.kind = "Ok"

(***************************************************************************)
(* Properties of the creature.                                             *)
(***************************************************************************)
\* the two logs the duration loop of tick emits
IsDurationLog(log) == log.l \in {"DecrementConditionRemaining", "RemoveCondition"}

\* how many of the logs are not duration logs
EffectLogCount(logs) == Cardinality({i \in 1..Len(logs) : ~IsDurationLog(logs[i])})

\* Creature::apply_log folded over the logs, from the creature
Folded(creature, logs) == apply_all(change(creature), logs, 1)

\* C11: a tick first applies the effect of every active condition (stored,
\* class or volume) that is a RecurringEffect with remaining Interminate or
\* Rounds(n > 0), and only then, for every condition stored on the creature
\* the effects left, keeps Interminate, turns Rounds(n > 0) into Rounds(n - 1)
\* and removes Rounds(0).
C11_TickTwoPhases ==
  op.t = "tick" =>
    LET logs == op.logs
        n == EffectLogCount(logs)
        mid == Folded(op.before, SubSeq(logs, 1, n))
    IN /\ \A i \in 1..Len(logs) : IsDurationLog(logs[i]) <=> i > n
       /\ Len(op.view) = Cardinality(DOMAIN op.before.conditions)
                           + Len(rogue_class) + Len(rogue_volumes)
       /\ \A id \in DOMAIN op.before.conditions :
            \E i \in 1..Len(op.view) : op.view[i] = op.before.conditions[id]
       /\ \A i \in 1..Len(op.view) :
            (\E j \in 1..Len(op.fired) : op.fired[j] = i)
              <=> /\ op.view[i].condition.c = "RecurringEffect"
                  /\ \/ op.view[i].remaining.d = "Interminate"
                     \/ op.view[i].remaining.n > 0
       /\ \A j, k \in 1..Len(op.fired) : j < k => op.fired[j] < op.fired[k]
       /\ mid.kind = "Ok"
       /\ rogue.cur_health = mid.creature.cur_health
       /\ rogue.cur_energy = mid.creature.cur_energy
       /\ DOMAIN rogue.conditions \subseteq DOMAIN mid.creature.conditions
       /\ \A id \in DOMAIN mid.creature.conditions :
            LET c == mid.creature.conditions[id]
            IN IF c.remaining.d = "Interminate"
               THEN id \in DOMAIN rogue.conditions /\ rogue.conditions[id] = c
               ELSE IF c.remaining.n > 0
               THEN /\ id \in DOMAIN rogue.conditions
                    /\ rogue.conditions[id] =
                         AppliedCondition(c.condition, Rounds(c.remaining.n - 1))
               ELSE id \notin DOMAIN rogue.conditions

\* a tick that applied an effect and both decremented and removed a condition
C11_Witness ==
  /\ op.t = "tick"
  /\ Len(op.fired) > 0
  /\ EffectLogCount(op.logs) > 0
  /\ \E i \in 1..Len(op.logs) : op.logs[i].l = "DecrementConditionRemaining"
  /\ \E i \in 1..Len(op.logs) : op.logs[i].l = "RemoveCondition"

\* C12: a condition stored with Rounds(N) is on the creature after each of
\* the next N ticks, with N - k remaining after tick k, and is gone after
\* tick N + 1.
C12_RoundsLastNTicks ==
  \A id \in DOMAIN age :
    age[id].remaining.d = "Rounds" =>
      IF age[id].ticks <= age[id].remaining.n
      THEN /\ id \in DOMAIN rogue.conditions
           /\ rogue.conditions[id] =
                AppliedCondition(age[id].condition,
                                 Rounds(age[id].remaining.n - age[id].ticks))
      ELSE id \notin DOMAIN rogue.conditions

\* a condition of two rounds after its third tick
C12_Witness ==
  \E id \in DOMAIN age :
    /\ age[id].remaining = Rounds(2)
    /\ age[id].ticks = 3
    /\ id \notin DOMAIN rogue.conditions
    /\ op.t = "tick"
    /\ RemoveCondition(id) \in {op.logs[i] : i \in 1..Len(op.logs)}

\* C13: a stored RecurringEffect of Rounds(N) has applied its effect on each
\* of its first N ticks and on none after.
C13_RecurringFiresNTimes ==
  \A id \in DOMAIN age :
    (age[id].condition.c = "RecurringEffect" /\ age[id].remaining.d = "Rounds") =>
      age[id].fired = Min(age[id].ticks, age[id].remaining.n)

\* the creature of test_recurring_effect_ticks_duration_times after its third
\* tick: two of the three ticks took one health each
C13_Witness ==
  /\ age = (0 :> [condition |-> RecurringEffect(EffDamage(SmallDice)),
                  remaining |-> Rounds(2), ticks |-> 3, fired |-> 2])
  /\ rogue_class = <<>>
  /\ rogue_volumes = <<>>
  /\ left.change = MaxChanges
  /\ rogue.cur_health = 8
  /\ op.t = "tick"
  /\ op.fired = <<>>

\* C14: when an effect with Damage in it, applied directly or by a tick,
\* leaves cur_health at 0, the logs hold an ApplyCondition(Interminate, Dead)
\* and the creature carries a Dead condition.
C14_ZeroHealthMeansDead ==
  ( /\ op.t \in {"tick", "apply_effect"}
    /\ \E i \in 1..Len(op.logs) : op.logs[i].l = "Damage"
    /\ rogue.cur_health = 0 ) =>
      /\ \E i \in 1..Len(op.logs) :
           /\ op.logs[i].l = "ApplyCondition"
           /\ op.logs[i].duration = Interminate
           /\ op.logs[i].condition = Dead
      /\ \E id \in DOMAIN rogue.conditions : rogue.conditions[id].condition = Dead

\* C15: cur_health stays within 0 .. max_health and cur_energy within
\* 0 .. max_energy through every log, effect and tick.
C15_HealthAndEnergyInRange ==
  /\ 0 <= rogue.cur_health
  /\ rogue.cur_health <= rogue.max_health
  /\ 0 <= rogue.cur_energy
  /\ rogue.cur_energy <= rogue.max_energy

\* a log that takes more than there is, and one that gives more than fits
C15_Witness ==
  /\ op.t = "apply_log"
  /\ op.kind = "Ok"
  /\ \/ op.log = LogDamage(U8Max) /\ op.before.cur_health > 0 /\ rogue.cur_health = 0
     \/ /\ op.log = LogHeal(U8Max)
        /\ op.before.cur_health < op.before.max_health
        /\ rogue.cur_health = rogue.max_health

\* C16: Creature::apply_log folded over the logs a tick or an apply_effect
\* returns, from the creature it was given, is the creature it returns.
C16_LogsDescribeTransition ==
  op.t \in {"tick", "apply_effect"} => Folded(op.before, op.logs) = Changed(rogue, op.logs)

\* a tick that merged the logs of two recurring effects and changed the creature
C16_Witness ==
  /\ op.t = "tick"
  /\ Len(op.fired) >= 2
  /\ EffectLogCount(op.logs) >= 2
  /\ rogue.cur_health # op.before.cur_health

\* the order in which the ids come out when sorted
sorted_order == [i \in 1..MaxConditionIDs |-> i - 1]

\* C17: the creature and the logs a tick gives do not depend on the order in
\* which the condition map is iterated.
C17_TickIgnoresIterationOrder ==
  \A hash_order \in HashOrders :
    tick(RogueNow, hash_order, next_condition_id).changes.creature
      = tick(RogueNow, sorted_order, next_condition_id).changes.creature

\* C18: the conditions of the class are in conditions() as Interminate, are
\* not among the stored conditions, and no tick decrements or removes them.
C18_ClassConditionsInterminate ==
  LET view == conditions(RogueNow, sorted_order)
      stored == Cardinality(DOMAIN rogue.conditions)
  IN /\ Len(view) = stored + Len(rogue_class) + Len(rogue_volumes)
     /\ \A i \in 1..Len(rogue_class) :
          view[stored + i] = AppliedCondition(rogue_class[i], Interminate)
     /\ DOMAIN rogue.conditions \subseteq DOMAIN age
     /\ op.t = "tick" =>
          /\ \A i \in 1..Len(rogue_class) :
               /\ op.view[Cardinality(DOMAIN op.before.conditions) + i]
                    = AppliedCondition(rogue_class[i], Interminate)
               /\ view[stored + i]
                    = op.view[Cardinality(DOMAIN op.before.conditions) + i]
          /\ \A i \in 1..Len(op.logs) :
               IsDurationLog(op.logs[i]) =>
                 op.logs[i].id \in DOMAIN Folded(op.before,
                                                 SubSeq(op.logs, 1, i - 1)).creature.conditions

\* the third tick of a creature whose class gives a recurring effect, which
\* applied the effect of the class again
C18_Witness ==
  /\ rogue_class # <<>>
  /\ left.tick = 0
  /\ op.t = "tick"
  /\ \E j \in 1..Len(op.fired) :
       op.fired[j] = Cardinality(DOMAIN op.before.conditions) + 1

\* C19: a dice total beyond the 255 of the 8-bit HP counts as 255 in Damage
\* and in Heal: the damage takes all the health, the heal restores all of it.
C19_DiceTotalClamped ==
  ( /\ op.t = "apply_effect"
    /\ op.effect.e \in {"Damage", "Heal"}
    /\ op.effect.dice > U8Max ) =>
      IF op.effect.e = "Damage"
      THEN rogue.cur_health = saturating_sub(op.before.cur_health, U8Max)
      ELSE rogue.cur_health =
             Min(saturating_add(op.before.cur_health, U8Max), op.before.max_health)

(***************************************************************************)
(* Properties of the grid.                                                 *)
(***************************************************************************)
\* the neighbours the rule gives: open, the volume fitting, and for a
\* diagonal both cells beside it open
OpenNeighbors(system, terrain, volume, pt) ==
  {<<<<pt[1] + dx, pt[2] + dy, pt[3]>>, step_cost(system, dx # 0 /\ dy # 0)>> :
     <<dx, dy>> \in {d \in ((-1)..1) \X ((-1)..1) :
                       LET n == <<pt[1] + d[1], pt[2] + d[2], pt[3]>>
                       IN /\ d # <<0, 0>>
                          /\ n \in terrain
                          /\ \A p \in points_in_volume(volume, n) : p \in terrain
                          /\ (d[1] # 0 /\ d[2] # 0) =>
                               /\ <<n[1], pt[2], pt[3]>> \in terrain
                               /\ <<pt[1], n[2], pt[3]>> \in terrain}}

\* C20: point3_neighbors yields exactly the planar neighbours that are open,
\* where the volume fits on open terrain and, for a diagonal, whose two
\* orthogonal cells are open, each once, at cost 100 / 141 in Realistic and
\* 99 / 100 in DnD.
C20_NeighborsAreTheOpenOnes ==
  (grid_query.t = "point3_neighbors" /\ grid_query.volume.v = "AABB") =>
    /\ grid_query.kind = "Ok"
    /\ Range(grid_query.results)
         = OpenNeighbors(grid_query.system, scene_terrain, grid_query.volume, grid_query.pt)
    /\ Len(grid_query.results) = Cardinality(Range(grid_query.results))

(***************************************************************************)
(* Properties of the path searches.                                        *)
(***************************************************************************)
\* the least of a non-empty set of costs
Least(costs) == CHOOSE c \in costs : \A other \in costs : c <= other

\* one round of relaxation: the costs known, and the costs of one more step
Relaxed(system, terrain, volume, cost) ==
  LET steps == UNION {{<<e[1], cost[pt] + e[2]>> :
                         e \in Range(point3_neighbors(system, terrain, volume, pt).results)} :
                      pt \in DOMAIN cost}
      known == {<<pt, cost[pt]>> : pt \in DOMAIN cost}
      all == steps \cup known
  IN [pt \in {e[1] : e \in all} |-> Least({e[2] : e \in {a \in all : a[1] = pt}})]

RECURSIVE Cheapest(_, _, _, _)
\* the cheapest cost of a walk along the neighbours to every point the
\* walks from the points of `cost` come to
Cheapest(system, terrain, volume, cost) ==
  LET next == Relaxed(system, terrain, volume, cost)
  IN IF next = cost THEN cost ELSE Cheapest(system, terrain, volume, next)

\* the cheapest cost from the start of the last search, per point
CheapestFromStart ==
  Cheapest(path_query.system, scene_terrain, path_query.volume, (path_query.start :> 0))

\* C21: astar_multi honours the cost ceiling both ways: every returned cost
\* is at most max_cost, and a goal is returned exactly when its cheapest
\* path costs at most max_cost.
C21_CeilingBothWays ==
  path_query.t = "astar_multi" =>
    /\ \A i \in 1..Len(path_query.results) : path_query.results[i].cost <= path_query.max_cost
    /\ \A k \in 1..Len(path_query.goals) :
         (\E i \in 1..Len(path_query.results) : path_query.results[i].pred = k)
           <=> /\ path_query.goals[k] \in DOMAIN CheapestFromStart
               /\ CheapestFromStart[path_query.goals[k]] <= path_query.max_cost

\* a search for two goals came back with the one within the ceiling, at a
\* cost equal to the ceiling, and without the one a step further
C21_Witness ==
  /\ path_query.t = "astar_multi"
  /\ Len(path_query.goals) = 2
  /\ Len(path_query.results) = 1
  /\ path_query.results[1].cost = path_query.max_cost
  /\ \E k \in 1..2 : /\ path_query.goals[k] \in DOMAIN CheapestFromStart
                      /\ CheapestFromStart[path_query.goals[k]] > path_query.max_cost

\* the cost of the step from one point to a neighbour of it, -1 when the
\* point is no neighbour
StepCost(system, terrain, volume, from, to) ==
  LET costs == {e[2] : e \in {n \in Range(point3_neighbors(system, terrain, volume, from).results) :
                                 n[1] = to}}
  IN IF costs = {} THEN -1 ELSE Least(costs)

RECURSIVE PathCost(_, _, _, _, _)
\* the sum of the step costs along the first n points of a path
PathCost(system, terrain, volume, path, n) ==
  IF n <= 1 THEN 0
  ELSE PathCost(system, terrain, volume, path, n - 1)
         + StepCost(system, terrain, volume, path[n - 1], path[n])

\* C22: for every (path, cost) astar_multi and find_path return, the step
\* costs along the path add up to the cost, also when the search went on
\* for other goals after this one was found.
C22_PathCostIsReported ==
  path_query.t \in {"astar_multi", "find_path"} =>
    \A i \in 1..Len(path_query.results) :
      LET path == path_query.results[i].path
      IN /\ \A n \in 2..Len(path) :
              StepCost(path_query.system, scene_terrain, path_query.volume,
                       path[n - 1], path[n]) >= 0
         /\ PathCost(path_query.system, scene_terrain, path_query.volume, path, Len(path))
              = path_query.results[i].cost

\* the last find_path asked for what the last get_all_accessible was asked
SameQuestion ==
  /\ path_query.t = "find_path"
  /\ accessible.t = "get_all_accessible"
  /\ path_query.system = accessible.system
  /\ path_query.volume = accessible.volume
  /\ path_query.start = accessible.start
  /\ path_query.max_cost = accessible.speed

\* C23: every point get_all_accessible returns differs from the start, and
\* find_path from the same start with the same speed finds it at a cost of
\* at most the speed; with no open neighbour the result is empty.
C23_AccessibleIsFindable ==
  /\ accessible.t = "get_all_accessible" =>
       /\ \A i \in 1..Len(accessible.points) : accessible.points[i] # accessible.start
       /\ point3_neighbors(accessible.system, scene_terrain, accessible.volume,
                           accessible.start).results = <<>>
            => accessible.points = <<>>
  /\ (SameQuestion /\ path_query.goals[1] \in Range(accessible.points)) =>
       /\ path_query.found.some
       /\ path_query.found.cost <= accessible.speed

\* find_path has found a point of a get_all_accessible that left some open
\* point of the terrain out
C23_Witness ==
  /\ SameQuestion
  /\ path_query.goals[1] \in Range(accessible.points)
  /\ path_query.found.some
  /\ \E pt \in scene_terrain : pt # accessible.start /\ pt \notin Range(accessible.points)

\* the points a volume of the given extent covers when placed at pt
Covered(volume, pt) ==
  {<<pt[1] + dx, pt[2] + dy, pt[3] + dz>> :
     dx \in 0..(volume.x - 1), dy \in 0..(volume.y - 1), dz \in 0..(volume.z - 1)}

\* `to` is one of the 8 planar neighbours of `from`
PlanarNeighbour(from, to) ==
  /\ to # from
  /\ to[3] = from[3]
  /\ to[1] - from[1] \in {-1, 0, 1}
  /\ to[2] - from[2] \in {-1, 0, 1}

\* C33: every path find_path returns starts at the start, and each further
\* point is one of the 8 planar neighbours of the point before it, is open,
\* and has the whole volume of the creature on open terrain; find_path
\* returns None when no walk along such points reaches the destination
\* within the speed.
C33_PathsFitTheVolume ==
  path_query.t = "find_path" =>
    /\ path_query.found.some =>
         LET path == path_query.found.path
         IN /\ path[1] = path_query.start
            /\ path[Len(path)] = path_query.goals[1]
            /\ \A n \in 2..Len(path) :
                 /\ PlanarNeighbour(path[n - 1], path[n])
                 /\ path[n] \in scene_terrain
                 /\ Covered(path_query.volume, path[n]) \subseteq scene_terrain
    /\ ~(/\ path_query.goals[1] \in DOMAIN CheapestFromStart
         /\ CheapestFromStart[path_query.goals[1]] <= path_query.max_cost)
         => ~path_query.found.some

\* find_path has led a creature two cells wide through the wide opening of
\* a map
C33_Witness ==
  /\ path_query.t = "find_path"
  /\ path_query.volume = AABB(2, 2, 1)
  /\ path_query.found.some
  /\ Len(path_query.found.path) >= 4
  /\ <<2, 1, 0>> \in Range(path_query.found.path)

\* C38: the cost find_path and each result of astar_multi report is the
\* least there is: no walk from the start to that node along the neighbours
\* of point3_neighbors costs less, in either tile system.
C38_ReportedCostIsLeast ==
  path_query.t \in {"astar_multi", "find_path"} =>
    \A i \in 1..Len(path_query.results) :
      path_query.results[i].cost
        = CheapestFromStart[path_query.goals[path_query.results[i].pred]]

\* C39: get_all_accessible is complete: from any start, at any height, and
\* in either tile system, every point other than the start to which
\* find_path returns a path of a cost within the speed is among the points
\* of get_all_accessible for the same start, volume and speed.
C39_FindableIsAccessible ==
  (/\ SameQuestion
   /\ path_query.goals[1] # path_query.start
   /\ path_query.found.some
   /\ path_query.found.cost <= accessible.speed)
  => path_query.goals[1] \in Range(accessible.points)

\* C24: astar_multi returns at most one (path, cost) per success predicate,
\* each ending at a node that satisfies the predicate, in the order in which
\* the predicates were satisfied; a satisfied predicate is not evaluated
\* again, and the search stops as soon as all are satisfied.
C24_OncePerPredicateInOrder ==
  /\ path_query.t = "astar_multi" =>
       LET results == path_query.results
       IN /\ \A i, j \in 1..Len(results) : results[i].pred = results[j].pred => i = j
          /\ \A i \in 1..Len(results) :
               results[i].path[Len(results[i].path)] = path_query.goals[results[i].pred]
          /\ \A i, j \in 1..Len(results) :
               i < j => \/ results[i].at < results[j].at
                        \/ results[i].at = results[j].at /\ results[i].pred < results[j].pred
          /\ Len(results) = Len(path_query.goals) =>
               /\ path_query.broke
               /\ path_query.pops = results[Len(results)].at
  /\ search.t = "astar_multi" =>
       /\ \A i \in 1..Len(search.loop.found_nodes) :
            search.loop.found_nodes[i].at < search.loop.pops
              => search.loop.found_nodes[i].pred \notin search.loop.evaluated
       /\ Len(search.loop.found_nodes) = Len(search.goals) => search.loop.broke

\* two predicates were satisfied at different pops, the second of the list
\* first, and the search ended at the pop that satisfied the other
C24_Witness ==
  /\ path_query.t = "astar_multi"
  /\ Len(path_query.results) = 2
  /\ path_query.results[1].pred = 2
  /\ path_query.results[1].at < path_query.results[2].at
  /\ path_query.pops = path_query.results[2].at

(***************************************************************************)
(* Properties of the IndexedHashMap.                                       *)
(***************************************************************************)
\* C25: after any sequence of insert, remove and mutate every stored value
\* is stored under its own derived key; insert replaces the value of the
\* same key; mutate(k, f) returns Some exactly when k was present, leaves
\* the map unchanged when k is absent, and when f changes the key the value
\* is found under the new key and the old key is absent.
C25_StoredUnderDerivedKey ==
  /\ \A k \in DOMAIN indexed : derive_key(indexed[k]) = k
  /\ indexed_op.t = "insert" =>
       /\ DOMAIN indexed = DOMAIN indexed_op.before \cup {derive_key(indexed_op.v)}
       /\ indexed[derive_key(indexed_op.v)] = indexed_op.v
       /\ \A k \in DOMAIN indexed_op.before :
            k # derive_key(indexed_op.v) => indexed[k] = indexed_op.before[k]
  /\ indexed_op.t = "mutate" =>
       LET before == indexed_op.before
           k == indexed_op.k
       IN /\ indexed_op.returned.some <=> k \in DOMAIN before
          /\ k \notin DOMAIN before => indexed = before
          /\ k \in DOMAIN before =>
               LET new == indexed_op.f[before[k]]
               IN /\ derive_key(new) \in DOMAIN indexed
                  /\ indexed[derive_key(new)] = new
                  /\ derive_key(new) # k => k \notin DOMAIN indexed

\* a mutate has changed the key of a value to a key that another value
\* held: the value is under the new key, the old key is gone
C25_Witness ==
  /\ indexed_op.t = "mutate"
  /\ indexed_op.returned.some
  /\ LET new == indexed_op.f[indexed_op.before[indexed_op.k]]
     IN /\ derive_key(new) # indexed_op.k
        /\ derive_key(new) \in DOMAIN indexed_op.before
        /\ indexed[derive_key(new)] = new
        /\ indexed_op.k \notin DOMAIN indexed

(***************************************************************************)
(* Properties of the services.                                             *)
(***************************************************************************)
\* C26: a poll_game call made with the current game index parks: whether or
\* not other pollers are registered for the game, it does not go on before a
\* command on the game has succeeded (ping) or the 30 seconds have elapsed.
C26_CurrentIndexParks ==
  \A p \in Pollers :
    (pollers[p].current /\ pollers[p].pc \in {"loading", "returned"})
      => pollers[p].woken \in {"ping", "timeout"}

\* the poller waits with its sender in the list of its game
Parked(p) ==
  /\ pollers[p].pc = "waiting"
  /\ pollers[p].chan = "open"
  /\ pollers[p].game_id \in DOMAIN waiters
  /\ <<p, pollers[p].call>> \in Range(waiters[pollers[p].game_id])

\* what a step that is the ping of a command on game_id has to bring about
PingDelivers(game_id) ==
  /\ \A p \in Pollers :
       (Parked(p) /\ pollers[p].game_id = game_id)
         => /\ pollers'[p].chan = "sent"
            /\ pollers'[p].signals = pollers[p].signals + 1
  /\ game_id \in DOMAIN waiters => waiters'[game_id] = <<>>
  /\ DOMAIN waiters' = DOMAIN waiters
  /\ \A g \in DOMAIN waiters : g # game_id => waiters'[g] = waiters[g]
  /\ \A p \in Pollers : pollers[p].game_id # game_id => pollers'[p] = pollers[p]

\* C27: ping(game_id) delivers exactly one wake signal to every poller parked
\* for game_id at that moment, leaves the waiter list of that game empty, and
\* neither signals nor removes waiters parked for another game.
C27_PingWakesItsGame ==
  [][\A c \in Commanders :
       (commanders[c].pc = "applied" /\ commanders'[c].pc = "done")
         => PingDelivers(commanders[c].game_id)]_vars

\* a ping has signalled the parked poller of its game once and emptied the
\* list, while the poller of the other game is still parked
C27_Witness ==
  \E p, q \in Pollers :
    /\ pollers[p].pc = "waiting"
    /\ pollers[p].chan = "sent"
    /\ pollers[p].signals = 1
    /\ waiters[pollers[p].game_id] = <<>>
    /\ Parked(q)
    /\ pollers[q].game_id # pollers[p].game_id

\* C28: poll_game returns immediately, without registering a waiter, when
\* the game index the caller supplies differs from the service's current one.
C28_ChangedReturnsAtOnce ==
  \A p \in Pollers :
    (pollers[p].pc # "idle" /\ ~pollers[p].current)
      => /\ pollers[p].pc = "returned"
         /\ pollers[p].woken = "changed"
         /\ \A g \in DOMAIN waiters : <<p, pollers[p].call>> \notin Range(waiters[g])

\* C29: every poll_game call eventually returns, released by the next ping
\* for its game or else by the 30-second timeout, however registrations,
\* pings and timeouts of other pollers interleave.
C29_EveryPollReturns ==
  \A p \in Pollers :
    (pollers[p].pc \in {"registering", "waiting", "loading"}) ~> (pollers[p].pc = "returned")

\* a poller that no ping reached has returned on the timeout while another
\* poller is still parked
C29_Witness ==
  \E p, q \in Pollers :
    /\ pollers[p].pc = "returned"
    /\ pollers[p].woken = "timeout"
    /\ Parked(q)

\* C30: commands for one game are serialized: each is evaluated against the
\* state of all logs already persisted for the game, so the persisted logs
\* can be replayed in order from the initial game.
C30_CommandsSerialized ==
  \A g \in DOMAIN persisted :
    \A i \in 1..Len(persisted[g]) : persisted[g][i].on = i - 1

\* the logs of the commander's command are among the persisted ones of its game
HasPersisted(c) ==
  \E i \in 1..Len(persisted[commanders[c].game_id]) :
    persisted[commanders[c].game_id][i].by = c

\* C34: perform_command persists logs and pings only when the command
\* succeeded, and pings only after the logs were persisted; when the command
\* returns an error nothing is persisted, no waiter is woken, the error is
\* what the call returns and the command is not run again.
C34_PersistThenPing ==
  [][/\ \A c \in Commanders :
          /\ (commanders[c].pc = "ready" /\ commanders'[c].outcome = "Err") =>
               /\ commanders'[c].pc = "done"
               /\ UNCHANGED <<persisted, waiters, pollers>>
          /\ commanders[c].pc = "done" => commanders'[c] = commanders[c]
     /\ persisted' # persisted =>
          \E c \in Commanders :
            /\ commanders[c].pc = "ready"
            /\ commanders'[c].pc = "applied"
            /\ commanders'[c].outcome # "Err"
     /\ (\/ waiters' # waiters /\ \E g \in DOMAIN waiters : Len(waiters'[g]) < Len(waiters[g])
         \/ \E p \in Pollers : pollers'[p].signals > pollers[p].signals) =>
          \E c \in Commanders :
            /\ commanders[c].pc = "applied"
            /\ HasPersisted(c)
            /\ commanders'[c].outcome = "Ok"
            /\ UNCHANGED persisted]_vars

\* one command failed and left the log as it was, another was persisted and
\* its ping woke a parked poller
C34_Witness ==
  \E failed, done \in Commanders :
    /\ commanders[failed].outcome = "Err"
    /\ commanders[done].outcome = "Ok"
    /\ \E g \in GameIDs : Len(persisted[g]) = 1 /\ persisted[g][1].by = done
    /\ \E p \in Pollers : pollers[p].woken = "ping"

(***************************************************************************)
(* The App once more: the size of the segments, the end of a replay, the   *)
(* creatures of the players.                                               *)
(***************************************************************************)
\* C35: in every reachable App no snapshot's log segment holds more than
\* 100 logs, whichever ordinary commands and Rollback commands made it.
C35_SegmentsWithinLimit ==
  \A s \in 1..Len(snapshots) : Len(snapshots[s][2]) <= SnapshotLogLimit

\* C36: rebuilding the Game of a Rollback always comes to an end: for every
\* reachable App, whatever Rollback logs its segments hold, and every
\* Rollback(si, li), rollback_to returns a Game or an error after finitely
\* many replays.
C36_RollbackTerminates ==
  cmd.t = "Rollback" => result.kind # "Diverges"

\* C37: in every reachable App every creature id granted to a registered
\* player is the id of a creature of current_game, after Rollback commands
\* too.
C37_PlayersHoldExistingCreatures ==
  \A pid \in DOMAIN players : players[pid].creatures \subseteq current_game.creatures

(***************************************************************************)
(* AuthenticatedService: authorization and invitations.                    *)
(***************************************************************************)
\* the user holds the role for the game
HoldsRole(user_id, game_id, role) ==
  \E profile \in user_games :
    profile.user_id = user_id /\ profile.game_id = game_id /\ profile.role = role

\* the role a call asks for
RoleOf(t) == IF t \in {"rpi::gm", "ptrpi::gm"} THEN "GM" ELSE "Player"

\* C31: gm(game_id) returns a service only to a user who holds the GM role
\* for that very game, player(game_id) only to one who holds the Player role
\* for that very game; any other call returns an error and loads no game.
C31_RoleForThatGame ==
  auth.t \in {"rpi::gm", "ptrpi::gm", "rpi::player", "ptrpi::player"} =>
    \/ HoldsRole(auth.user_id, auth.game_id, RoleOf(auth.t))
    \/ auth.outcome = "Err" /\ ~auth.loaded

\* C40: accept_invitation is all or nothing: when it returns an error the
\* profile is not left in the storage; when it returns Ok the profile is
\* stored, the player is registered in the Game and the waiters of the game
\* were pinged.
C40_AcceptIsAllOrNothing ==
  auth.t = "accept_invitation" =>
    /\ (auth.outcome = "Err" /\ ~auth.was_stored) => auth.profile \notin user_games
    /\ auth.outcome = "Ok" =>
         /\ auth.profile \in user_games
         /\ auth.profile.profile_name \in game_players(persisted, auth.profile.game_id)
         /\ auth.pinged

(***************************************************************************)
(* The capability-based App.                                               *)
(***************************************************************************)
\* the first listed creature id the App does not hold, 0 when it holds all
FirstUnknown(app, cids) ==
  LET unknown == {i \in 1..Len(cids) : cids[i] \notin DOMAIN app.creatures}
  IN IF unknown = {} THEN 0 ELSE CHOOSE i \in unknown : \A j \in unknown : i <= j

\* C32: start_combat with an unknown creature id in the list fails with
\* CreatureNotFound of that id, and with an empty list it fails with
\* CombatMustHaveCreatures; in both cases the App is as before the call and
\* its capability is still NoCombat.
C32_StartCombatErrors ==
  cap_op.t = "start_combat" =>
    /\ FirstUnknown(cap_op.before, cap_op.cids) # 0 =>
         cap_op.returned = ErrApp(<<"CreatureNotFound",
                                    cap_op.cids[FirstUnknown(cap_op.before, cap_op.cids)]>>)
    /\ cap_op.cids = <<>> => cap_op.returned = ErrApp(<<"CombatMustHaveCreatures">>)
    /\ cap_op.returned.kind = "Err" =>
         /\ CapAppNow = cap_op.before
         /\ capability(CapAppNow) = "NoCombat"

\* start_combat found an unknown creature after a known one, in an App that
\* has had a combat
C32_Witness ==
  /\ cap_op.t = "start_combat"
  /\ Len(cap_op.cids) = 2
  /\ FirstUnknown(cap_op.before, cap_op.cids) = 2
  /\ cap_op.returned.kind = "Err"
  /\ combat_history # <<>>
====
